---- MODULE Spec2Model ----
(***************************************************************************)
(* Cache-completeness and range-fetch subsystem of limitless-cli.          *)
(*                                                                         *)
(* Calendar days are the integers 1..MaxDay; NoDate stands for Python's    *)
(* None.  A lifelog record is [id, date].  The cache directory is a        *)
(* function from days to file contents (absent, corrupt JSON, a legacy     *)
(* bare list, or a structured entry).  Every operation of CacheManager is  *)
(* first written as a state transformer over the record                     *)
(*   [store, memo, fetched, reqs, writes]                                   *)
(* (cache files, memoized directory scan, _fetched_this_session, and the   *)
(* logs of remote requests and cache writes made by the running call) and  *)
(* then lifted to an action over the variables.                            *)
(***************************************************************************)
EXTENDS Integers, Sequences, FiniteSets, TLC

VARIABLES
    execution_date,   \* datetime.now(tz).date() of the run
    remote,           \* days for which the remote service holds records
    irregular,        \* records of a range answer without a usable date
    store,            \* cache directory: day -> file content
    cache_scan_cache, \* CacheManager._cache_scan_cache (memoized scan)
    fetched,          \* CacheManager._fetched_this_session
    call,             \* the operation that ran last and its arguments
    result,           \* the logs that operation returned / yielded
    raised,           \* whether that operation ended by raising
    request_log,      \* remote requests issued by that operation
    write_log,        \* cache writes performed by that operation
    store0,           \* the cache directory when that operation started
    hybrid            \* a hybrid call in progress: plan and gap workers

vars == <<execution_date, remote, irregular, store, cache_scan_cache, fetched,
          call, result, raised, request_log, write_log, store0, hybrid>>

----------------------------------------------------------------------------
(* Bounds *)

MaxDay == 4
MaxSeeded == 2
MaxFailures == 1
MaxIrregular == 2
MaxPlanDay == 5
MaxLimit == 3
Parallel == 2

Days == 1..MaxDay
NoDate == 0

----------------------------------------------------------------------------
(* Records and the remote service *)

Rec(i, d) == [id |-> i, date |-> d]

\* A record that only an old cache file holds; the remote never returns it.
StaleRec(d) == Rec(0, d)

\* The full result of a query for one day (all pages), in the direction
\* the query asks for ("desc", newest first, is the service's default).
RemoteDay(d, direction) ==
    IF d \notin remote THEN <<>>
    ELSE IF direction = "asc" THEN <<Rec(1, d), Rec(2, d)>>
                              ELSE <<Rec(2, d), Rec(1, d)>>

\* paginated(..., max_results=n): the first n records of the full result.
Truncate(logs, n) == IF Len(logs) <= n THEN logs ELSE SubSeq(logs, 1, n)

\* What a record's date field (date, created_at or timestamp, the first
\* that is set) may hold instead of the text of a day: nothing (no key, or
\* an empty value), text whose first ten characters are not a date, or a
\* number.
MissingDate == 0 - 1
BadDate == 0 - 2
NonStringDate == 0 - 3

RECURSIVE RemoteRange(_, _, _)
\* The full result of a query by start/end bounds, in the asked direction.
RemoteRange(s, e, direction) ==
    IF s > e THEN <<>>
    ELSE IF direction = "asc"
         THEN RemoteDay(s, direction) \o RemoteRange(s + 1, e, direction)
         ELSE RemoteDay(e, direction) \o RemoteRange(s, e - 1, direction)

\* The answer to a query by start/end bounds as the client receives it:
\* the records of the asked days and, when the service sends them, the
\* records of `irregular`, the first ahead of the others and the rest
\* behind them.
RangeAnswer(s, e, direction) ==
    IF irregular = <<>> THEN RemoteRange(s, e, direction)
    ELSE <<Head(irregular)>> \o RemoteRange(s, e, direction)
            \o Tail(irregular)

----------------------------------------------------------------------------
(* Cache files *)

File(k, l, dd, fo, c) ==
    [kind |-> k, logs |-> l, data_date |-> dd, fetched_on_date |-> fo,
     confirmed |-> c]

Absent == File("absent", <<>>, NoDate, NoDate, NoDate)
Corrupt == File("corrupt", <<>>, NoDate, NoDate, NoDate)
\* A file that is valid JSON but not an entry: parse_date of one of its
\* date fields raises ValueError (a JSON scalar raises TypeError).
\* _read_cache_file catches neither, so the file is not unlinked.
Malformed == File("malformed", <<>>, NoDate, NoDate, NoDate)
Legacy(l) == File("legacy", l, NoDate, NoDate, NoDate)
Entry(l, dd, fo, c) == File("entry", l, dd, fo, c)

\* path.exists()
Exists(f) == f.kind # "absent"

\* _read_cache_file succeeds (no JSONDecodeError / KeyError / ValueError)
Readable(f) == f.kind \in {"legacy", "entry"}

\* A variant that reads a legacy list as confirmed by the next day.
ReadCacheFileTrustsLegacy(f, expected) ==
    IF f.kind = "legacy"
    THEN Entry(f.logs, expected, expected, expected + 1)
    ELSE f

\* _read_cache_file: (logs, data_date, fetched_on_date, confirmed); a legacy
\* bare list is normalised to the expected date and no stamp.
ReadCacheFile(f, expected) ==
    IF f.kind = "legacy"
    THEN Entry(f.logs, expected, expected, NoDate)
    ELSE f

\* _read_cache_file's repair-on-read: a corrupt file is unlinked.
UnlinkIfCorrupt(st, d) ==
    IF st[d].kind = "corrupt" THEN [st EXCEPT ![d] = Absent] ELSE st

----------------------------------------------------------------------------
(* Directory scan and confirmation frontier *)

NoRow == [present |-> FALSE, has_logs |-> FALSE, confirmed |-> NoDate]
NoMemo == [valid |-> FALSE, data |-> [d \in Days |-> NoRow]]

\* The rows a walk over the directory produces: {date: (bool(logs),
\* confirmed)} for every readable file dated <= execution_date.
ScanRows(st) ==
    [d \in Days |->
        IF d <= execution_date /\ Readable(st[d])
        THEN [present |-> TRUE, has_logs |-> st[d].logs # <<>>,
              confirmed |-> ReadCacheFile(st[d], d).confirmed]
        ELSE NoRow]

\* The walk reads every file dated <= execution_date through
\* _read_cache_file, which unlinks the corrupt ones.
ScanRepair(st) ==
    [d \in Days |->
        IF d <= execution_date /\ st[d].kind = "corrupt" THEN Absent ELSE st[d]]

\* _scan_cache_directory: a memo hit returns the memo; otherwise the
\* directory is walked and the result memoized.
ScanCacheDirectory(m) ==
    IF m.memo.valid
    THEN [m |-> m, data |-> m.memo.data]
    ELSE LET data == ScanRows(m.store)
         IN [m |-> [m EXCEPT !.store = ScanRepair(m.store),
                             !.memo = [valid |-> TRUE, data |-> data]],
             data |-> data]

MaxOf(S) == IF S = {} THEN NoDate ELSE CHOOSE x \in S : \A y \in S : y <= x

\* A variant that also counts the day's own records, as the standalone
\* script does.
GetMaxKnownNonEmptyDataDateOrOwn(data, current_date) ==
    MaxOf({d \in Days : data[d].present /\ ~(d < current_date)
                         /\ data[d].has_logs})

\* _get_max_known_non_empty_data_date: latest scanned day after
\* current_date that has data.
GetMaxKnownNonEmptyDataDate(data, current_date) ==
    MaxOf({d \in Days : data[d].present /\ ~(d <= current_date)
                         /\ data[d].has_logs})

\* _get_global_latest_non_empty_date
GetGlobalLatestNonEmptyDate(data) ==
    MaxOf({d \in Days : data[d].present /\ data[d].has_logs})

\* Days <= execution_date whose file is readable and holds records, read
\* straight from the directory (recorded with every write for reference).
Evidence(st) ==
    {d \in Days : d <= execution_date /\ Readable(st[d]) /\ st[d].logs # <<>>}

\* _write_cache_file: under the write lock, compute the stamp from the
\* scan, replace the file, clear the memo.
WriteCacheFile(m, d, logs, fetched_on, by) ==
    LET Replace(sc, confirmed) ==
           [sc.m EXCEPT
              !.store[d] = Entry(logs, d, fetched_on, confirmed),
              !.memo = NoMemo,
              !.writes = Append(@, [day |-> d, confirmed |-> confirmed,
                                    logs |-> logs, by |-> by,
                                    evidence |-> Evidence(m.store)])]
        Stamp(sc) == Replace(sc, GetMaxKnownNonEmptyDataDate(sc.data, d))
    IN Stamp(ScanCacheDirectory(m))

\* A variant that forgets to record the day.
MarkFetchedForgets(m, d) == m

\* _mark_fetched
MarkFetched(m, d) == [m EXCEPT !.fetched = @ \cup {d}]

\* A variant in which a day counts as fetched this session from the moment
\* its query has answered, before its entry is written.
RequestMarksFetched(m, kind, d, e, ok) ==
    [m EXCEPT !.reqs = Append(@, [kind |-> kind, day |-> d, end |-> e,
                                  ok |-> ok]),
              !.fetched = IF kind = "date" /\ ok THEN @ \cup {d} ELSE @]

\* One remote request is recorded: kind "date" (one day, all pages),
\* "probe" (one day, limit 1) or "range".
Request(m, kind, d, e, ok) ==
    [m EXCEPT !.reqs = Append(@, [kind |-> kind, day |-> d, end |-> e,
                                  ok |-> ok])]

----------------------------------------------------------------------------
(* Smart probe *)

\* A variant that also caches an empty probe result.
PerformLatestDataProbeCachesEmpty(m, probe_day, direction, down) ==
    IF <<"probe", probe_day>> \in down
    THEN [m |-> Request(m, "probe", probe_day, probe_day, FALSE),
          found |-> FALSE]
    ELSE LET probe_logs == Truncate(RemoteDay(probe_day, direction), 1)
             m1 == Request(m, "probe", probe_day, probe_day, TRUE)
         IN [m |-> WriteCacheFile(m1, probe_day, probe_logs,
                                  execution_date, "probe"),
             found |-> probe_logs # <<>>]

\* _perform_latest_data_probe: one-record query for probe_day; a non-empty
\* result is written to the cache, an empty one or an error is not.
PerformLatestDataProbe(m, probe_day, direction, down) ==
    IF <<"probe", probe_day>> \in down
    THEN [m |-> Request(m, "probe", probe_day, probe_day, FALSE),
          found |-> FALSE]
    ELSE LET probe_logs == Truncate(RemoteDay(probe_day, direction), 1)
             m1 == Request(m, "probe", probe_day, probe_day, TRUE)
         IN IF probe_logs # <<>>
            THEN [m |-> WriteCacheFile(m1, probe_day, probe_logs,
                                       execution_date, "probe"),
                  found |-> TRUE]
            ELSE [m |-> m1, found |-> FALSE]

----------------------------------------------------------------------------
(* Per-day fetch *)

\* fetch_day's first check: a future day is skipped unless cache-only.
SkipsFutureAlways(day, force_cache) == day > execution_date

SkipsFuture(day, force_cache) == day > execution_date /\ ~force_cache

\* Variants of the cache lookup, used to probe the claims below: one that
\* serves only non-empty cached logs, one without the refresh of today,
\* one that applies the trust check in cache-only mode too, and the lookup
\* of the standalone script (limitless.py), which compares with >=.
UseCacheNonEmptyOnly(f, day, force_cache) ==
    /\ Readable(f)
    /\ \/ force_cache
       \/ /\ day # execution_date
          /\ ReadCacheFile(f, day).logs # <<>>
          /\ ReadCacheFile(f, day).confirmed # NoDate
          /\ ReadCacheFile(f, day).confirmed > ReadCacheFile(f, day).data_date

UseCacheAlsoToday(f, day, force_cache) ==
    /\ Readable(f)
    /\ \/ force_cache
       \/ /\ ReadCacheFile(f, day).confirmed # NoDate
          /\ ReadCacheFile(f, day).confirmed > ReadCacheFile(f, day).data_date

UseCacheTrustedOnly(f, day, force_cache) ==
    /\ Readable(f)
    /\ day # execution_date
    /\ ReadCacheFile(f, day).confirmed # NoDate
    /\ ReadCacheFile(f, day).confirmed > ReadCacheFile(f, day).data_date

UseCacheLegacy(f, day, force_cache) ==
    /\ Readable(f)
    /\ \/ force_cache
       \/ /\ day # execution_date
          /\ ReadCacheFile(f, day).confirmed # NoDate
          /\ ReadCacheFile(f, day).confirmed >= ReadCacheFile(f, day).data_date

\* The cache lookup of fetch_day: may the cached logs be returned?
UseCache(f, day, force_cache) ==
    /\ Readable(f)
    /\ \/ force_cache
       \/ /\ day # execution_date
          /\ ReadCacheFile(f, day).confirmed # NoDate
          /\ ReadCacheFile(f, day).confirmed > ReadCacheFile(f, day).data_date

\* needs_fetch after the cache lookup of fetch_day.
NeedsFetch(f, day, force_cache) ==
    IF Exists(f)
    THEN IF Readable(f) THEN ~UseCache(f, day, force_cache)
                        ELSE ~force_cache
    ELSE ~force_cache

\* A variant of the error branch that records the failed day as empty.
FetchFailedCachesEmpty(m, day) ==
    [m |-> MarkFetched(WriteCacheFile(Request(m, "date", day, day, FALSE),
                                      day, <<>>, execution_date, "fetch"),
                       day),
     logs |-> <<>>]

\* fetch_day's `except ApiError` branch: nothing is written.
FetchFailed(m, day) ==
    [m |-> Request(m, "date", day, day, FALSE), logs |-> <<>>]

\* fetch_day: (logs, state after).
FetchDay(m, day, direction, force_cache, down) ==
    IF SkipsFuture(day, force_cache)
    THEN [m |-> m, logs |-> <<>>]
    ELSE LET f == m.store[day]
             m1 == [m EXCEPT !.store = UnlinkIfCorrupt(@, day)]
         IN IF NeedsFetch(f, day, force_cache)
            THEN IF <<"date", day>> \in down
                 THEN FetchFailed(m1, day)
                 ELSE LET logs == RemoteDay(day, direction)
                          m2 == Request(m1, "date", day, day, TRUE)
                          m3 == WriteCacheFile(m2, day, logs,
                                               execution_date, "fetch")
                      IN [m |-> MarkFetched(m3, day), logs |-> logs]
            ELSE [m |-> m1,
                  logs |-> IF UseCache(f, day, force_cache)
                           THEN ReadCacheFile(f, day).logs ELSE <<>>]

----------------------------------------------------------------------------
(* Probe decision and post-run stamp upgrade *)

\* A variant that never asks for a probe.
ShouldProbeForCompletenessNever(days, data, force_cache) == FALSE

\* _should_probe_for_completeness(days, execution_date, cache_data,
\* force_cache)
ShouldProbeForCompleteness(days, data, force_cache) ==
    IF force_cache THEN FALSE
    ELSE IF ~(\E d \in days : d < execution_date) THEN FALSE
    ELSE IF \E cd \in Days : /\ data[cd].present
                             /\ cd > MaxOf(days)
                             /\ data[cd].has_logs
         THEN FALSE
    ELSE \E day \in days :
            /\ ~(day >= execution_date)
            /\ \/ ~data[day].present
               \/ ~data[day].has_logs
               \/ data[day].confirmed = NoDate
               \/ data[day].confirmed < day

\* A variant without the clamp.
ProbeDateUnclamped(days) == MaxOf(days) + 1

\* probe_date = max(days) + 1, clamped to execution_date
ProbeDate(days) ==
    IF MaxOf(days) + 1 > execution_date THEN execution_date
                                        ELSE MaxOf(days) + 1

\* One iteration of the loop of _post_run_upgrade_confirmations.
UpgradeOne(m, d, effective_max) ==
    IF d = effective_max \/ d > effective_max THEN m
    ELSE IF ~Exists(m.store[d]) THEN m
    ELSE IF ~Readable(m.store[d])
         THEN [m EXCEPT !.store = UnlinkIfCorrupt(@, d)]
    ELSE LET e == ReadCacheFile(m.store[d], d)
         IN IF e.confirmed = NoDate \/ e.confirmed < effective_max
            THEN WriteCacheFile(m, d, e.logs, e.fetched_on_date, "upgrade")
            ELSE m

RECURSIVE UpgradeLoop(_, _, _)
\* The loop over list(self._fetched_this_session).  An upgrade rewrites
\* the logs it read, so no iteration changes which days hold data and the
\* outcome is the same for every iteration order; ascending is used.
UpgradeLoop(m, todo, effective_max) ==
    IF todo = {} THEN m
    ELSE LET d == CHOOSE x \in todo : \A y \in todo : x <= y
         IN UpgradeLoop(UpgradeOne(m, d, effective_max), todo \ {d},
                        effective_max)

\* A variant whose loop runs over every day up to execution_date instead
\* of the days fetched this session.
PostRunUpgradeConfirmationsEveryDay(m, final_max_date) ==
    LET Loop(m1, effective_max) ==
           UpgradeLoop(m1, 1..execution_date, effective_max)
        Effective(global_latest) ==
           IF global_latest # NoDate /\ global_latest > final_max_date
           THEN global_latest ELSE final_max_date
        Upgrade(sc) ==
           Loop(sc.m, Effective(GetGlobalLatestNonEmptyDate(sc.data)))
    IN Upgrade(ScanCacheDirectory(m))

\* _post_run_upgrade_confirmations(final_max_date, execution_date)
PostRunUpgradeConfirmations(m, final_max_date) ==
    LET Loop(m1, effective_max) == UpgradeLoop(m1, m1.fetched, effective_max)
        Effective(global_latest) ==
           IF global_latest # NoDate /\ global_latest > final_max_date
           THEN global_latest ELSE final_max_date
        Upgrade(sc) ==
           Loop(sc.m, Effective(GetGlobalLatestNonEmptyDate(sc.data)))
    IN Upgrade(ScanCacheDirectory(m))

----------------------------------------------------------------------------
(* logs_by_day dictionaries and output ordering *)

\* A dict {day: [records]}: its key set and its values.
EmptyDict == [keys |-> {}, logs |-> [d \in Days |-> <<>>]]
Put(dict, d, l) == [keys |-> dict.keys \cup {d},
                    logs |-> [dict.logs EXCEPT ![d] = l]]
\* dict.update(other)
Update(dict, other) ==
    [keys |-> dict.keys \cup other.keys,
     logs |-> [d \in Days |-> IF d \in other.keys THEN other.logs[d]
                              ELSE dict.logs[d]]]

\* max((d for d, l in logs_by_day.items() if l), default=None)
LatestNonEmpty(dict) == MaxOf({d \in dict.keys : dict.logs[d] # <<>>})

RECURSIVE Flatten(_, _, _)
\* The records of the days in `ds`, days ascending or descending.
Flatten(dict, ds, descending) ==
    IF ds = {} THEN <<>>
    ELSE LET d == IF descending
                  THEN CHOOSE x \in ds : \A y \in ds : y <= x
                  ELSE CHOOSE x \in ds : \A y \in ds : x <= y
         IN dict.logs[d] \o Flatten(dict, ds \ {d}, descending)

\* A variant that always emits the days ascending.
OrderLogsAscending(dict, direction) == Flatten(dict, dict.keys, FALSE)

\* sorted(keys, reverse=(direction == "desc")), records day by day
OrderLogsByDirection(dict, direction) ==
    Flatten(dict, dict.keys, direction = "desc")

\* max_results: NoLimit stands for None
NoLimit == 0 - 1
Limit(logs, max_results) ==
    IF max_results = NoLimit THEN logs ELSE Truncate(logs, max_results)

----------------------------------------------------------------------------
(* Per-day range streaming *)

RECURSIVE FetchDaysRevUntilFailure(_, _, _, _, _, _)
\* A variant that gives up at the first day whose query fails.
FetchDaysRevUntilFailure(m, todo, dict, direction, force_cache, down) ==
    IF todo = {} THEN [m |-> m, dict |-> dict]
    ELSE LET d == CHOOSE x \in todo : \A y \in todo : y <= x
             Rest(r) ==
                IF Len(r.m.reqs) > Len(m.reqs)
                   /\ ~r.m.reqs[Len(r.m.reqs)].ok
                THEN [m |-> r.m, dict |-> dict]
                ELSE FetchDaysRevUntilFailure(r.m, todo \ {d},
                                              Put(dict, d, r.logs),
                                              direction, force_cache, down)
         IN Rest(FetchDay(m, d, direction, force_cache, down))

RECURSIVE FetchDaysRev(_, _, _, _, _, _)
\* for d in days_rev: logs_by_day[d] = fetch_day(d, ...)
FetchDaysRev(m, todo, dict, direction, force_cache, down) ==
    IF todo = {} THEN [m |-> m, dict |-> dict]
    ELSE LET d == CHOOSE x \in todo : \A y \in todo : y <= x
             Rest(r) == FetchDaysRev(r.m, todo \ {d}, Put(dict, d, r.logs),
                                     direction, force_cache, down)
         IN Rest(FetchDay(m, d, direction, force_cache, down))

\* stream_range, per-day path (also every cache-only request)
StreamRangePerDay(m, start, end, direction, max_results, force_cache, down) ==
    LET days == {d \in start..end : d <= execution_date}
        scan == IF ~force_cache THEN ScanCacheDirectory(m)
                ELSE [m |-> m, data |-> NoMemo.data]
        Probe(sc) ==
           IF ShouldProbeForCompleteness(days, sc.data, force_cache)
           THEN PerformLatestDataProbe(sc.m, ProbeDate(days), direction,
                                       down).m
           ELSE sc.m
        Upgrade(r, latest_non_empty) ==
           [m |-> IF latest_non_empty # NoDate
                  THEN PostRunUpgradeConfirmations(r.m, latest_non_empty)
                  ELSE r.m,
            raised |-> FALSE,
            out |-> Limit(OrderLogsByDirection(r.dict, direction),
                          max_results)]
        Stream(r) == Upgrade(r, LatestNonEmpty(r.dict))
    IN Stream(FetchDaysRev(Probe(scan), days, EmptyDict, direction,
                           force_cache, down))

----------------------------------------------------------------------------
(* Bulk range streaming *)

\* dstr[:10] parsed with API_DATE_FMT, for a record whose date field
\* holds the text of a day.
RecordDay(lg) == lg.date

\* `if not dstr: continue` and `except ValueError: continue`
Dropped(lg) == lg.date \in {MissingDate, BadDate}

\* dstr[:10] of a number raises TypeError, which the loop does not catch.
RaisesTypeError(logs) ==
    \E i \in 1..Len(logs) : logs[i].date = NonStringDate

\* The record is appended to a bucket (and counted in `fetched`).
Kept(lg, start, effective_end) ==
    /\ lg.date \notin {MissingDate, BadDate, NonStringDate}
    /\ RecordDay(lg) >= start
    /\ RecordDay(lg) <= effective_end

RECURSIVE Partition(_, _, _, _)
\* The partition loop of _stream_range_bulk: each record goes to the bucket
\* of its own day; records dated outside [start, effective_end] are skipped.
Partition(logs, dict, start, effective_end) ==
    IF logs = <<>> THEN dict
    ELSE LET lg == Head(logs)
             d == RecordDay(lg)
         IN IF Dropped(lg) \/ d < start \/ d > effective_end
            THEN Partition(Tail(logs), dict, start, effective_end)
            ELSE Partition(Tail(logs),
                           Put(dict, d, Append(dict.logs[d], lg)),
                           start, effective_end)

RECURSIVE CacheResultsByDaySkipsEmpty(_, _, _, _)
\* A variant that writes only the days that received records.
CacheResultsByDaySkipsEmpty(m, dict, day_cursor, effective_end) ==
    IF day_cursor > effective_end THEN m
    ELSE IF day_cursor > execution_date \/ dict.logs[day_cursor] = <<>>
         THEN CacheResultsByDaySkipsEmpty(m, dict, day_cursor + 1,
                                          effective_end)
    ELSE CacheResultsByDaySkipsEmpty(
            MarkFetched(WriteCacheFile(m, day_cursor, dict.logs[day_cursor],
                                       execution_date, "bulk"),
                        day_cursor),
            dict, day_cursor + 1, effective_end)

RECURSIVE CacheResultsByDay(_, _, _, _)
\* for day_cursor in start..effective_end: write the day's bucket (or [])
\* and mark the day fetched.
CacheResultsByDay(m, dict, day_cursor, effective_end) ==
    IF day_cursor > effective_end THEN m
    ELSE IF day_cursor > execution_date
         THEN CacheResultsByDay(m, dict, day_cursor + 1, effective_end)
    ELSE CacheResultsByDay(
            MarkFetched(WriteCacheFile(m, day_cursor, dict.logs[day_cursor],
                                       execution_date, "bulk"),
                        day_cursor),
            dict, day_cursor + 1, effective_end)

MinOf2(a, b) == IF a <= b THEN a ELSE b

\* paginated(..., max_results): `if max_results and ...` treats 0 like None
Paginated(logs, max_results) ==
    IF max_results = NoLimit \/ max_results = 0 THEN logs
    ELSE Truncate(logs, max_results)

\* A variant whose loop breaks after the first record.
BulkLoopTakeOne(logs, max_results, start, effective_end) == Truncate(logs, 1)

RECURSIVE TakeKept(_, _, _, _)
\* The records the loop goes through until it has kept n of them.
TakeKept(logs, n, start, effective_end) ==
    IF logs = <<>> \/ n = 0 THEN <<>>
    ELSE <<Head(logs)>>
         \o TakeKept(Tail(logs),
                     IF Kept(Head(logs), start, effective_end) THEN n - 1
                                                               ELSE n,
                     start, effective_end)

\* The partition loop breaks once `fetched >= max_results`, a test made
\* after a record has been kept: with max_results = 0 one record is kept.
BulkLoopTake(logs, max_results, start, effective_end) ==
    IF max_results = NoLimit THEN logs
    ELSE TakeKept(logs, IF max_results < 1 THEN 1 ELSE max_results,
                  start, effective_end)

\* A variant that records a failed range query as days without records.
BulkFailedCachesEmpty(m, start, effective_end) ==
    [m |-> CacheResultsByDay(Request(m, "range", start, effective_end, FALSE),
                             EmptyDict, start, effective_end),
     raised |-> TRUE, out |-> <<>>]

\* The range query raises ApiError, on its first page or on a later one:
\* the exception leaves _stream_range_bulk from inside the loop over the
\* paginator, before the loop that writes the days.
BulkFailed(m, start, effective_end) ==
    [m |-> Request(m, "range", start, effective_end, FALSE),
     raised |-> TRUE, out |-> <<>>]

\* _stream_range_bulk; a failed range query, or a TypeError of the
\* partition loop, raises out of the generator before anything is written
\* or yielded.
StreamRangeBulk(m, start, end, direction, max_results, down) ==
    IF start > execution_date
    THEN [m |-> m, raised |-> FALSE, out |-> <<>>]
    ELSE LET effective_end == MinOf2(end, execution_date)
         IN IF <<"range", start>> \in down
            THEN BulkFailed(m, start, effective_end)
            ELSE LET page == BulkLoopTake(
                                Paginated(RangeAnswer(start, effective_end,
                                                      direction),
                                          max_results),
                                max_results, start, effective_end)
                     Upgrade(m2, dict, latest_non_empty) ==
                        [m |-> IF latest_non_empty # NoDate
                               THEN PostRunUpgradeConfirmations(
                                       m2, latest_non_empty)
                               ELSE m2,
                         raised |-> FALSE,
                         out |-> OrderLogsByDirection(dict, direction)]
                     Cache(m1, dict) ==
                        Upgrade(CacheResultsByDay(m1, dict, start,
                                                  effective_end),
                                dict, LatestNonEmpty(dict))
                 IN IF RaisesTypeError(page)
                    THEN [m |-> Request(m, "range", start, effective_end,
                                        TRUE),
                          raised |-> TRUE, out |-> <<>>]
                    ELSE Cache(Request(m, "range", start, effective_end,
                                       TRUE),
                               Partition(page, EmptyDict, start,
                                         effective_end))

----------------------------------------------------------------------------
(* Hybrid range streaming *)

HYBRID_BULK_MIN_DAYS == 3
\* HYBRID_BULK_RATIO = 0.4 = HYBRID_BULK_RATIO_TENTHS / 10
HYBRID_BULK_RATIO_TENTHS == 4

\* A variant that plans only the days without a file.
NeedsApiMissingOnly(data, current) ==
    \/ current = execution_date
    \/ ~data[current].present

\* Step 1 of _plan_hybrid_fetch: does `current` need the API?
NeedsApi(data, current) ==
    \/ current = execution_date
    \/ ~data[current].present
    \/ data[current].confirmed = NoDate
    \/ data[current].confirmed <= current

\* strategy of one gap: bulk if long enough or a large enough share
GapStrategy(gap_days, total_days) ==
    IF gap_days >= HYBRID_BULK_MIN_DAYS
       \/ (total_days # 0
           /\ gap_days * 10 >= HYBRID_BULK_RATIO_TENTHS * total_days)
    THEN "bulk" ELSE "daily"

\* A variant that counts the days of the range as asked, as
\* HybridStreamer._plan_hybrid_fetch does: (end - start).days + 1.
TotalDaysAsAsked(start, end) == end - start + 1

\* total_days = (min(end, execution_date) - start).days + 1
TotalDays(start, end) ==
    (IF end <= execution_date THEN end ELSE execution_date) - start + 1

RECURSIVE GroupGaps(_, _, _, _)
\* Step 2: collapse the ascending needs_api days into maximal runs.
GroupGaps(needs_api, gap_start, gap_end, gaps) ==
    IF needs_api = {} THEN Append(gaps, <<gap_start, gap_end>>)
    ELSE LET day == CHOOSE x \in needs_api : \A y \in needs_api : x <= y
         IN IF day = gap_end + 1
            THEN GroupGaps(needs_api \ {day}, gap_start, day, gaps)
            ELSE GroupGaps(needs_api \ {day}, day, day,
                           Append(gaps, <<gap_start, gap_end>>))

\* _plan_hybrid_fetch(start, end, execution_date, cache_data)
PlanHybridFetch(start, end, data) ==
    LET needs_api == {c \in start..end :
                        c <= execution_date /\ NeedsApi(data, c)}
    IN IF needs_api = {} THEN <<>>
       ELSE LET total_days == TotalDays(start, end)
                WithStrategy(gaps) ==
                   [i \in 1..Len(gaps) |->
                      [start |-> gaps[i][1], end |-> gaps[i][2],
                       strategy |-> GapStrategy(gaps[i][2] - gaps[i][1] + 1,
                                                total_days)]]
                Group(first) ==
                   WithStrategy(GroupGaps(needs_api \ {first}, first, first,
                                          <<>>))
            IN Group(CHOOSE x \in needs_api : \A y \in needs_api : x <= y)

RECURSIVE FetchDaysAsc(_, _, _, _, _, _)
\* The daily branch of execute_gap: fetch_day for g_start..g_end.
FetchDaysAsc(m, current, g_end, dict, direction, down) ==
    IF current > g_end THEN [m |-> m, dict |-> dict]
    ELSE LET Rest(r) == FetchDaysAsc(r.m, current + 1, g_end,
                                     Put(dict, current, r.logs),
                                     direction, down)
         IN Rest(FetchDay(m, current, direction, FALSE, down))

\* execute_gap: the gap's records by day; an exception of the bulk branch
\* is caught and leaves `local` as it is.
ExecuteGap(m, gap, direction, down) ==
    IF gap.strategy = "bulk"
    THEN LET Local(b) ==
                [m |-> b.m,
                 dict |-> Partition(b.out, EmptyDict, gap.start, gap.end)]
         IN Local(StreamRangeBulk(m, gap.start, gap.end, direction, NoLimit,
                                  down))
    ELSE FetchDaysAsc(m, gap.start, gap.end, EmptyDict, direction, down)

RECURSIVE ExecutePlan(_, _, _, _, _, _)
\* The gaps run one after the other in the sequence `order` (indices into
\* the plan); their results are merged into logs_by_day.
ExecutePlan(m, plan, order, dict, direction, down) ==
    IF order = <<>> THEN [m |-> m, dict |-> dict]
    ELSE LET Rest(r) == ExecutePlan(r.m, plan, Tail(order),
                                    Update(dict, r.dict), direction, down)
         IN Rest(ExecuteGap(m, plan[Head(order)], direction, down))

RECURSIVE FillFromCacheAsEmpty(_, _, _, _, _)
\* A variant that gives every remaining day an empty list.
FillFromCacheAsEmpty(m, dict, current, last, default_empty) ==
    IF current > last THEN [m |-> m, dict |-> dict]
    ELSE IF current \in dict.keys
         THEN FillFromCacheAsEmpty(m, dict, current + 1, last, default_empty)
    ELSE FillFromCacheAsEmpty(m, Put(dict, current, <<>>), current + 1, last,
                              default_empty)

RECURSIVE FillFromCache(_, _, _, _, _)
\* Days of the range missing from logs_by_day are read from the cache;
\* `default_empty` tells whether a day without a file gets [] (it does
\* after a plan ran, not when the plan was empty).
FillFromCache(m, dict, current, last, default_empty) ==
    IF current > last THEN [m |-> m, dict |-> dict]
    ELSE IF current \in dict.keys
         THEN FillFromCache(m, dict, current + 1, last, default_empty)
    ELSE LET f == m.store[current]
             m1 == [m EXCEPT !.store = UnlinkIfCorrupt(@, current)]
             d1 == IF Readable(f)
                   THEN Put(dict, current, ReadCacheFile(f, current).logs)
                   ELSE IF Exists(f) \/ default_empty
                        THEN Put(dict, current, <<>>)
                        ELSE dict
         IN FillFromCache(m1, d1, current + 1, last, default_empty)

\* _stream_range_hybrid
StreamRangeHybrid(m, start, end, direction, max_results, order, down) ==
    IF start > execution_date
    THEN [m |-> m, raised |-> FALSE, out |-> <<>>]
    ELSE LET last == MinOf2(end, execution_date)
             Upgrade(r, latest_non_empty) ==
                [m |-> IF latest_non_empty # NoDate
                       THEN PostRunUpgradeConfirmations(r.m, latest_non_empty)
                       ELSE r.m,
                 raised |-> FALSE,
                 out |-> Limit(OrderLogsByDirection(r.dict, direction),
                               max_results)]
             Stream(r) == Upgrade(r, LatestNonEmpty(r.dict))
             Fill(x, default_empty) ==
                Stream(FillFromCache(x.m, x.dict, start, last, default_empty))
             Run(sc, plan) ==
                Fill(IF plan = <<>>
                     THEN [m |-> sc.m, dict |-> EmptyDict]
                     ELSE ExecutePlan(sc.m, plan, order, EmptyDict,
                                      direction, down),
                     plan # <<>>)
             Planned(sc) == Run(sc, PlanHybridFetch(start, end, sc.data))
         IN Planned(ScanCacheDirectory(m))

\* The orders in which the gaps of a plan of n gaps may run.
GapOrders(n) ==
    {o \in [1..n -> 1..n] : \A i, j \in 1..n : o[i] = o[j] => i = j}

\* A variant whose dispatch does not look at cache-only mode.
StreamRangeByStrategyOnly(m, strategy, start, end, direction, max_results, force_cache, order, down) ==
    IF strategy = "BULK"
    THEN StreamRangeBulk(m, start, end, direction, max_results, down)
    ELSE StreamRangePerDay(m, start, end, direction, max_results, force_cache,
                           down)

\* stream_range: strategy dispatch (FETCH_STRATEGY), cache-only requests
\* always take the per-day path.
StreamRange(m, strategy, start, end, direction, max_results, force_cache, order, down) ==
    IF strategy = "BULK" /\ ~force_cache
    THEN StreamRangeBulk(m, start, end, direction, max_results, down)
    ELSE IF strategy = "HYBRID" /\ ~force_cache
    THEN StreamRangeHybrid(m, start, end, direction, max_results, order, down)
    ELSE StreamRangePerDay(m, start, end, direction, max_results, force_cache,
                           down)

----------------------------------------------------------------------------
(* State machine: one process run constructs a CacheManager over the cache *)
(* directory left by earlier runs and performs one operation.              *)

Directions == {"asc", "desc"}
\* common["direction"] is None when the `week` command runs without
\* --direction; such requests reach stream_range.
NoDirection == "None"
RangeDirections == Directions \cup {NoDirection}
Strategies == {"PER_DAY", "BULK", "HYBRID"}
MaxResultsChoices == {NoLimit}

\* Files earlier runs may have left for day d: unparseable JSON, JSON
\* with an unreadable date field, a legacy
\* bare list, entries without a stamp or with the stamp of the next day,
\* and an entry stamped with its own date (the standalone script counts a
\* day's own records as evidence).
SeedFiles(d) ==
    {Corrupt, Malformed, Legacy(<<StaleRec(d)>>)}
    \cup {Entry(l, d, d, c) : l \in {<<>>, <<StaleRec(d)>>},
                               c \in {NoDate, d + 1}}
    \cup {Entry(<<StaleRec(d)>>, d, d, d)}

\* Cache directories over days 1..n holding at most `budget` files.
RECURSIVE SeededStores(_, _)
SeededStores(n, budget) ==
    IF n = 0 THEN {<<>>}
    ELSE {Append(st, Absent) : st \in SeededStores(n - 1, budget)}
         \cup (IF budget = 0 THEN {}
               ELSE {Append(st, f) : st \in SeededStores(n - 1, budget - 1),
                                     f \in SeedFiles(n)})

InitStores == SeededStores(MaxDay, MaxSeeded)

\* No hybrid call with concurrent gap workers is in progress.
NoHybrid == [phase |-> "idle", plan |-> <<>>, down |-> {}, w |-> <<>>]

NoCall == [op |-> "none", day |-> NoDate, start |-> NoDate, end |-> NoDate,
           strategy |-> "none", direction |-> "none",
           max_results |-> NoLimit, force_cache |-> FALSE, found |-> FALSE]

Init ==
    /\ execution_date = MaxDay - 1
    /\ remote \in SUBSET (1..(MaxDay - 1))
    /\ irregular = <<>>
    /\ store \in InitStores
    /\ cache_scan_cache = NoMemo
    /\ fetched = {}
    /\ call = NoCall
    /\ result = <<>>
    /\ raised = FALSE
    /\ request_log = <<>>
    /\ write_log = <<>>
    /\ store0 = store
    /\ hybrid = NoHybrid

\* The manager's state at the start of an operation.
Start == [store |-> store, memo |-> cache_scan_cache, fetched |-> fetched,
          reqs |-> <<>>, writes |-> <<>>]

\* The variables after an operation that left the manager in state m.
Finish(m, c, logs, exc) ==
    /\ store' = m.store
    /\ cache_scan_cache' = m.memo
    /\ fetched' = m.fetched
    /\ request_log' = m.reqs
    /\ write_log' = m.writes
    /\ call' = c
    /\ result' = logs
    /\ raised' = exc
    /\ store0' = store
    /\ UNCHANGED <<execution_date, remote, irregular, hybrid>>

\* Sets of at most MaxFailures failing requests among `targets`.
RECURSIVE FailureSetsUpTo(_, _)
FailureSetsUpTo(targets, n) ==
    IF n = 0 THEN {{}}
    ELSE LET smaller == FailureSetsUpTo(targets, n - 1)
         IN smaller \cup {f \cup {t} : f \in smaller, t \in targets}

FailureSets(targets) == FailureSetsUpTo(targets, MaxFailures)

\* manager.fetch_day(day, common, force_cache=...)
FetchDayCall(day, direction, force_cache, down) ==
    /\ call.op = "none"
    /\ LET Return(r) ==
              Finish(r.m,
                     [NoCall EXCEPT !.op = "fetch_day", !.day = day,
                                    !.direction = direction,
                                    !.force_cache = force_cache],
                     r.logs, FALSE)
       IN Return(FetchDay(Start, day, direction, force_cache, down))

\* manager._perform_latest_data_probe(probe_day, common, execution_date)
ProbeCall(day, direction, down) ==
    /\ call.op = "none"
    /\ LET Return(r) ==
              Finish(r.m,
                     [NoCall EXCEPT !.op = "probe", !.day = day,
                                    !.direction = direction,
                                    !.found = r.found],
                     <<>>, FALSE)
       IN Return(PerformLatestDataProbe(Start, day, direction, down))

\* The requests a range call over [start, end] can issue.
RangeTargets(strategy, start, end, force_cache) ==
    IF force_cache \/ start > execution_date THEN {}
    ELSE LET last == MinOf2(end, execution_date)
             probe == {<<"probe", ProbeDate(start..last)>>}
         IN CASE strategy = "PER_DAY" ->
                   {<<"date", d>> : d \in start..last} \cup probe
              [] strategy = "BULK" -> {<<"range", start>>} \cup probe
              [] OTHER ->
                   {<<"date", d>> : d \in start..last}
                   \cup {<<"range", d>> : d \in start..last} \cup probe

\* The plan a hybrid call computes on entry.
PlanOnEntry(start, end) ==
    IF start > execution_date THEN <<>>
    ELSE PlanHybridFetch(start, end, ScanCacheDirectory(Start).data)

\* manager.stream_range(start, end, common, max_results=..., force_cache=...)
StreamRangeCall(strategy, start, end, direction, max_results, force_cache, order, down) ==
    /\ call.op = "none"
    /\ LET Return(r) ==
              Finish(r.m,
                     [NoCall EXCEPT !.op = "stream_range", !.start = start,
                                    !.end = end, !.strategy = strategy,
                                    !.direction = direction,
                                    !.max_results = max_results,
                                    !.force_cache = force_cache],
                     r.out, r.raised)
       IN Return(StreamRange(Start, strategy, start, end, direction,
                             max_results, force_cache, order, down))

\* Single-day operations of the manager.
FetchDayStep ==
    /\ call.op = "none"
    /\ \E day \in Days, direction \in Directions, force_cache \in BOOLEAN :
          \E down \in FailureSets({<<"date", day>>}) :
             FetchDayCall(day, direction, force_cache, down)

ProbeStep ==
    /\ call.op = "none"
    /\ \E day \in Days, direction \in Directions :
          \E down \in FailureSets({<<"probe", day>>}) :
             ProbeCall(day, direction, down)

\* Range requests under each configured FETCH_STRATEGY.
StreamRangeStep ==
    /\ call.op = "none"
    /\ \E strategy \in Strategies, start \in Days, end \in Days,
          direction \in RangeDirections, max_results \in MaxResultsChoices,
          force_cache \in BOOLEAN :
          /\ start <= end
          /\ \E order \in (IF strategy = "HYBRID" /\ ~force_cache
                           THEN GapOrders(Len(PlanOnEntry(start, end)))
                           ELSE {<<>>}),
                down \in FailureSets(RangeTargets(strategy, start, end,
                                                 force_cache)) :
                StreamRangeCall(strategy, start, end, direction,
                                max_results, force_cache, order, down)

Next == FetchDayStep \/ ProbeStep

Spec == Init /\ [][Next]_vars

NextRange == StreamRangeStep

SpecRange == Init /\ [][NextRange]_vars

\* What the date field of a record of `irregular` holds: no usable date,
\* or the text of some day, whatever the bounds of the query.
IrregularDates == {MissingDate, BadDate, NonStringDate} \cup Days

\* The sequences of at most MaxIrregular such records (ids 3, 4, ...).
IrregularAnswers ==
    UNION {{[i \in 1..n |-> Rec(2 + i, f[i])] : f \in [1..n -> IrregularDates]} : n \in 0..MaxIrregular}

BulkMaxResultsChoices == {NoLimit, 1}

\* A run against a remote whose range answers carry irregular records,
\* over a cache directory holding at most one file.
InitBulk ==
    /\ execution_date = MaxDay - 1
    /\ remote \in SUBSET (1..(MaxDay - 1))
    /\ irregular \in IrregularAnswers
    /\ store \in SeededStores(MaxDay, 1)
    /\ cache_scan_cache = NoMemo
    /\ fetched = {}
    /\ call = NoCall
    /\ result = <<>>
    /\ raised = FALSE
    /\ request_log = <<>>
    /\ write_log = <<>>
    /\ store0 = store
    /\ hybrid = NoHybrid

\* Range requests with FETCH_STRATEGY BULK.
BulkRangeStep ==
    /\ call.op = "none"
    /\ \E start \in Days, end \in Days, direction \in Directions,
          max_results \in BulkMaxResultsChoices :
          /\ start <= end
          /\ StreamRangeCall("BULK", start, end, direction, max_results,
                             FALSE, <<>>, {})

NextBulk == BulkRangeStep

SpecBulk == InitBulk /\ [][NextBulk]_vars

\* The planner as a function of its arguments: ranges of up to MaxPlanDay
\* days, so that a gap can be a small share of a long range.
PlanDays == 1..MaxPlanDay

\* The row of cache_data for day d: no file, or a file without stamp,
\* stamped with its own date, or stamped with the next day.
PlanRows(d) ==
    {NoRow}
    \cup {[present |-> TRUE, has_logs |-> TRUE, confirmed |-> c] :
             c \in {NoDate, d, d + 1}}
    \cup {[present |-> TRUE, has_logs |-> FALSE, confirmed |-> d + 1]}

\* The scans _scan_cache_directory can return: files dated after
\* execution_date are skipped.
PlanScans ==
    {data \in [PlanDays -> UNION {PlanRows(d) : d \in PlanDays}] :
        \A d \in PlanDays :
           /\ data[d] \in PlanRows(d)
           /\ d > execution_date => data[d] = NoRow}

InitPlan ==
    /\ execution_date \in PlanDays
    /\ remote = {}
    /\ irregular = <<>>
    /\ store = [d \in Days |-> Absent]
    /\ cache_scan_cache \in [valid : {TRUE}, data : PlanScans]
    /\ fetched = {}
    /\ call = NoCall
    /\ result = <<>>
    /\ raised = FALSE
    /\ request_log = <<>>
    /\ write_log = <<>>
    /\ store0 = store
    /\ hybrid = NoHybrid

\* _plan_hybrid_fetch(start, end, execution_date, cache_data) on the
\* memoized scan; the plan is kept in hybrid.plan.
PlanStep ==
    /\ call.op = "none"
    /\ \E start \in PlanDays, end \in PlanDays :
          /\ start <= end
          /\ call' = [NoCall EXCEPT !.op = "plan", !.start = start,
                                    !.end = end]
          /\ hybrid' = [NoHybrid EXCEPT
                          !.plan = PlanHybridFetch(start, end,
                                                   cache_scan_cache.data)]
    /\ UNCHANGED <<execution_date, remote, irregular, store,
                   cache_scan_cache, fetched, result, raised, request_log,
                   write_log, store0>>

NextPlan == PlanStep

SpecPlan == InitPlan /\ [][NextPlan]_vars

\* --limit N: max_results = args.limit, any integer from 0 on.
LimitChoices == 0..MaxLimit

\* A run over a cache directory holding at most one file.
InitLimit ==
    /\ execution_date = MaxDay - 1
    /\ remote \in SUBSET (1..(MaxDay - 1))
    /\ irregular = <<>>
    /\ store \in SeededStores(MaxDay, 1)
    /\ cache_scan_cache = NoMemo
    /\ fetched = {}
    /\ call = NoCall
    /\ result = <<>>
    /\ raised = FALSE
    /\ request_log = <<>>
    /\ write_log = <<>>
    /\ store0 = store
    /\ hybrid = NoHybrid

\* Range requests with a limit, under each configured FETCH_STRATEGY; no
\* request fails.
LimitedRangeStep ==
    /\ call.op = "none"
    /\ \E strategy \in Strategies, start \in Days, end \in Days,
          direction \in RangeDirections, max_results \in LimitChoices,
          force_cache \in BOOLEAN :
          /\ start <= end
          /\ \E order \in (IF strategy = "HYBRID" /\ ~force_cache
                           THEN GapOrders(Len(PlanOnEntry(start, end)))
                           ELSE {<<>>}) :
                StreamRangeCall(strategy, start, end, direction,
                                max_results, force_cache, order, {})

NextLimit == LimitedRangeStep

SpecLimit == InitLimit /\ [][NextLimit]_vars

----------------------------------------------------------------------------
(* Hybrid streaming with several gaps: the gaps run in the threads of a   *)
(* ThreadPoolExecutor that share the manager.  A step is one of:           *)
(*   - fetch_day's cache lookup and remote query for one day;              *)
(*   - one _write_cache_file (stamp computation, replace, memo clear:      *)
(*     all under _cache_write_lock) with the _mark_fetched after it;       *)
(*   - the range query of a bulk gap;                                      *)
(*   - the directory walk of an unlocked _scan_cache_directory;            *)
(*   - the memoization that ends that scan;                                *)
(*   - the read of one entry by the upgrade loop.                          *)
(* With at most MaxDay days a plan has fewer gaps than                     *)
(* HYBRID_MAX_WORKERS, so every gap has a thread of its own.               *)

\* The manager's state in the middle of a call.
Cur == [store |-> store, memo |-> cache_scan_cache, fetched |-> fetched,
        reqs |-> request_log, writes |-> write_log]

Commit(m) ==
    /\ store' = m.store
    /\ cache_scan_cache' = m.memo
    /\ fetched' = m.fetched
    /\ request_log' = m.reqs
    /\ write_log' = m.writes

\* A gap worker about to start: pc, day cursor, records waiting to be
\* written, the bulk buckets, the gap's result `local`, the rows of a
\* scan in progress, effective_max, the days the upgrade loop has left,
\* and the entry the upgrade loop has read.
NewWorker(gap) ==
    [pc |-> IF gap.strategy = "bulk" THEN "request" ELSE "fetch",
     cur |-> gap.start, got |-> <<>>, bydays |-> EmptyDict,
     local |-> EmptyDict, snap |-> NoMemo.data, eff |-> NoDate,
     todo |-> {}, held |-> Absent]

\* The requests the gaps of a plan can issue.
PlanTargets(plan) ==
    UNION {IF plan[i].strategy = "bulk"
           THEN {<<"range", plan[i].start>>}
           ELSE {<<"date", d>> : d \in plan[i].start..plan[i].end}
           : i \in 1..Len(plan)}

\* _stream_range_hybrid up to the submission of the gaps to the pool.
HybridBegin ==
    /\ call.op = "none"
    /\ \E start \in Days, end \in Days, direction \in Directions :
          /\ start <= end
          /\ start <= execution_date
          /\ LET sc == ScanCacheDirectory(Start)
                 plan == PlanHybridFetch(start, end, sc.data)
             IN /\ Len(plan) >= 2
                /\ \E down \in FailureSets(PlanTargets(plan)) :
                      hybrid' = [phase |-> "running", plan |-> plan,
                                 down |-> down,
                                 w |-> [i \in 1..Len(plan) |->
                                          NewWorker(plan[i])]]
                /\ Commit(sc.m)
          /\ call' = [NoCall EXCEPT !.op = "hybrid", !.start = start,
                                    !.end = end, !.strategy = "HYBRID",
                                    !.direction = direction]
    /\ store0' = store
    /\ UNCHANGED <<execution_date, remote, irregular, result, raised>>

\* Worker i goes on with worker record w, the manager being left as m.
Advance(i, w, m) ==
    /\ hybrid' = [hybrid EXCEPT !.w[i] = w]
    /\ Commit(m)
    /\ UNCHANGED <<execution_date, remote, irregular, call, result, raised, store0>>

\* Is worker i of a running hybrid call at pc?
At(i, pc) ==
    /\ hybrid.phase = "running"
    /\ i \in 1..Len(hybrid.plan)
    /\ hybrid.w[i].pc = pc

\* The daily branch of execute_gap after local[current] = logs.
NextDay(i, w, logs) ==
    [w EXCEPT !.local = Put(@, w.cur, logs),
              !.got = <<>>,
              !.cur = w.cur + 1,
              !.pc = IF w.cur + 1 > hybrid.plan[i].end THEN "done"
                                                       ELSE "fetch"]

\* fetch_day up to the end of the remote query.
DailyFetch(i) ==
    /\ At(i, "fetch")
    /\ LET w == hybrid.w[i]
           day == w.cur
           f == store[day]
           m1 == [Cur EXCEPT !.store = UnlinkIfCorrupt(@, day)]
       IN IF SkipsFuture(day, FALSE) THEN Advance(i, NextDay(i, w, <<>>), Cur)
          ELSE IF ~NeedsFetch(f, day, FALSE)
               THEN Advance(i, NextDay(i, w, ReadCacheFile(f, day).logs), m1)
          ELSE IF <<"date", day>> \in hybrid.down
               THEN Advance(i, NextDay(i, w, <<>>), FetchFailed(m1, day).m)
          ELSE Advance(i, [w EXCEPT !.got = RemoteDay(day, call.direction),
                                    !.pc = "write"],
                       Request(m1, "date", day, day, TRUE))

\* fetch_day's _write_cache_file and _mark_fetched.
DailyWrite(i) ==
    /\ At(i, "write")
    /\ LET w == hybrid.w[i]
       IN Advance(i, NextDay(i, w, w.got),
                  MarkFetched(WriteCacheFile(Cur, w.cur, w.got,
                                             execution_date, "fetch"),
                              w.cur))

\* The bulk branch of execute_gap has consumed the generator (or caught
\* its exception): local holds the yielded records by day.
BulkDone(i, w) ==
    [w EXCEPT !.pc = "done",
              !.todo = {},
              !.held = Absent,
              !.local = Partition(OrderLogsByDirection(w.bydays,
                                                       call.direction),
                                  EmptyDict, hybrid.plan[i].start,
                                  hybrid.plan[i].end)]

\* _stream_range_bulk: the range query and the partition by day.
BulkRequest(i) ==
    /\ At(i, "request")
    /\ LET w == hybrid.w[i]
           gap == hybrid.plan[i]
           effective_end == MinOf2(gap.end, execution_date)
           Answered(page) ==
              IF RaisesTypeError(page)
              THEN Advance(i, [w EXCEPT !.pc = "done"],
                           Request(Cur, "range", gap.start, effective_end,
                                   TRUE))
              ELSE Advance(i,
                      [w EXCEPT
                         !.pc = "bulk_write",
                         !.bydays = Partition(page, EmptyDict, gap.start,
                                              effective_end)],
                      Request(Cur, "range", gap.start, effective_end, TRUE))
       IN IF <<"range", gap.start>> \in hybrid.down
          THEN Advance(i, [w EXCEPT !.pc = "done"],
                       Request(Cur, "range", gap.start, effective_end, FALSE))
          ELSE Answered(RangeAnswer(gap.start, effective_end,
                                    call.direction))

\* _stream_range_bulk: one iteration of the loop that writes every day.
BulkWrite(i) ==
    /\ At(i, "bulk_write")
    /\ LET w == hybrid.w[i]
           effective_end == MinOf2(hybrid.plan[i].end, execution_date)
           m == MarkFetched(WriteCacheFile(Cur, w.cur, w.bydays.logs[w.cur],
                                           execution_date, "bulk"),
                            w.cur)
       IN IF w.cur + 1 <= effective_end
          THEN Advance(i, [w EXCEPT !.cur = w.cur + 1], m)
          ELSE IF LatestNonEmpty(w.bydays) # NoDate
               THEN Advance(i, [w EXCEPT !.pc = "scan"], m)
               ELSE Advance(i, BulkDone(i, w), m)

\* effective_max of _post_run_upgrade_confirmations
EffectiveMax(data, final_max_date) ==
    LET global_latest == GetGlobalLatestNonEmptyDate(data)
    IN IF global_latest # NoDate /\ global_latest > final_max_date
       THEN global_latest ELSE final_max_date

\* The worker enters the upgrade loop over list(_fetched_this_session).
EnterUpgrade(i, w, data) ==
    IF fetched = {} THEN BulkDone(i, w)
    ELSE [w EXCEPT !.pc = "upgrade",
                   !.snap = NoMemo.data,
                   !.eff = EffectiveMax(data, LatestNonEmpty(w.bydays)),
                   !.todo = fetched]

\* _post_run_upgrade_confirmations of a bulk gap: _scan_cache_directory
\* without the write lock.  A memo hit returns at once; otherwise the
\* directory is walked.
UpgradeScan(i) ==
    /\ At(i, "scan")
    /\ LET w == hybrid.w[i]
       IN IF cache_scan_cache.valid
          THEN Advance(i, EnterUpgrade(i, w, cache_scan_cache.data), Cur)
          ELSE Advance(i, [w EXCEPT !.pc = "memoize",
                                    !.snap = ScanRows(store)],
                       [Cur EXCEPT !.store = ScanRepair(store)])

\* The end of that scan: the rows walked are memoized and returned.
UpgradeMemoize(i) ==
    /\ At(i, "memoize")
    /\ LET w == hybrid.w[i]
       IN Advance(i, EnterUpgrade(i, w, w.snap),
                  [Cur EXCEPT !.memo = [valid |-> TRUE, data |-> w.snap]])

\* The upgrade loop has dealt with day d.
UpgradeNext(i, w, d) ==
    IF w.todo \ {d} = {} THEN BulkDone(i, w)
    ELSE [w EXCEPT !.pc = "upgrade", !.todo = @ \ {d}, !.held = Absent]

\* One iteration of the upgrade loop up to the read of the entry.
UpgradeRead(i) ==
    /\ At(i, "upgrade")
    /\ LET w == hybrid.w[i]
           d == CHOOSE x \in w.todo : \A y \in w.todo : x <= y
       IN IF d = w.eff \/ d > w.eff THEN Advance(i, UpgradeNext(i, w, d), Cur)
          ELSE IF ~Exists(store[d]) THEN Advance(i, UpgradeNext(i, w, d), Cur)
          ELSE IF ~Readable(store[d])
               THEN Advance(i, UpgradeNext(i, w, d),
                            [Cur EXCEPT !.store = UnlinkIfCorrupt(@, d)])
          ELSE LET e == ReadCacheFile(store[d], d)
               IN IF e.confirmed = NoDate \/ e.confirmed < w.eff
                  THEN Advance(i, [w EXCEPT !.pc = "upgrade_write",
                                            !.held = e], Cur)
                  ELSE Advance(i, UpgradeNext(i, w, d), Cur)

\* The rewrite of the entry the upgrade loop has read.
UpgradeWrite(i) ==
    /\ At(i, "upgrade_write")
    /\ LET w == hybrid.w[i]
           d == CHOOSE x \in w.todo : \A y \in w.todo : x <= y
       IN Advance(i, UpgradeNext(i, w, d),
                  WriteCacheFile(Cur, d, w.held.logs, w.held.fetched_on_date,
                                 "upgrade"))

RECURSIVE MergeLocals(_, _)
\* for res in ex.map(execute_gap, plan): logs_by_day.update(res)
MergeLocals(n, dict) ==
    IF n > Len(hybrid.plan) THEN dict
    ELSE MergeLocals(n + 1, Update(dict, hybrid.w[n].local))

\* The pool has shut down: _stream_range_hybrid merges the results, fills
\* the remaining days from the cache, upgrades and yields.
HybridJoin ==
    /\ hybrid.phase = "running"
    /\ \A i \in 1..Len(hybrid.plan) : hybrid.w[i].pc = "done"
    /\ LET last == MinOf2(call.end, execution_date)
           r == FillFromCache(Cur, MergeLocals(1, EmptyDict), call.start,
                              last, TRUE)
           latest_non_empty == LatestNonEmpty(r.dict)
           m2 == IF latest_non_empty # NoDate
                 THEN PostRunUpgradeConfirmations(r.m, latest_non_empty)
                 ELSE r.m
       IN /\ Commit(m2)
          /\ result' = Limit(OrderLogsByDirection(r.dict, call.direction),
                             call.max_results)
    /\ call' = [call EXCEPT !.op = "stream_range"]
    /\ hybrid' = [hybrid EXCEPT !.phase = "done"]
    /\ UNCHANGED <<execution_date, remote, irregular, raised, store0>>

\* Cache directories in which some day inside the range 1..MaxDay is
\* trustworthy, so that a plan can have more than one gap.
WorkerStores ==
    {st \in InitStores :
        \E d \in 2..(MaxDay - 1) :
           st[d].kind = "entry" /\ st[d].confirmed > d}

InitWorkers ==
    /\ execution_date = MaxDay
    /\ remote \in SUBSET Days
    /\ irregular = <<>>
    /\ store \in WorkerStores
    /\ cache_scan_cache = NoMemo
    /\ fetched = {}
    /\ call = NoCall
    /\ result = <<>>
    /\ raised = FALSE
    /\ request_log = <<>>
    /\ write_log = <<>>
    /\ store0 = store
    /\ hybrid = NoHybrid

NextWorkers ==
    \/ HybridBegin
    \/ \E i \in 1..MaxDay : DailyFetch(i)
    \/ \E i \in 1..MaxDay : DailyWrite(i)
    \/ \E i \in 1..MaxDay : BulkRequest(i)
    \/ \E i \in 1..MaxDay : BulkWrite(i)
    \/ \E i \in 1..MaxDay : UpgradeScan(i)
    \/ \E i \in 1..MaxDay : UpgradeMemoize(i)
    \/ \E i \in 1..MaxDay : UpgradeRead(i)
    \/ \E i \in 1..MaxDay : UpgradeWrite(i)
    \/ HybridJoin

SpecWorkers == InitWorkers /\ [][NextWorkers]_vars

----------------------------------------------------------------------------
(* The same hybrid call with _write_cache_file in its steps.  A thread    *)
(* enters `with self._cache_write_lock`, computes the stamp from          *)
(* _scan_cache_directory (walk and memoization inside the lock), swaps    *)
(* the temp file in, clears the memo and leaves the lock.  The pc of a    *)
(* worker inside the lock is the pc of its write with a suffix:           *)
(* "_stamped" after the stamp computation, "_replaced" after the swap.    *)

\* The pcs at which a worker is about to call _write_cache_file.
WritePcs == {"write", "bulk_write", "upgrade_write"}

Stamped(pc) ==
    CASE pc = "write" -> "write_stamped"
      [] pc = "bulk_write" -> "bulk_write_stamped"
      [] pc = "upgrade_write" -> "upgrade_write_stamped"

Replaced(pc) ==
    CASE pc = "write_stamped" -> "write_replaced"
      [] pc = "bulk_write_stamped" -> "bulk_write_replaced"
      [] pc = "upgrade_write_stamped" -> "upgrade_write_replaced"

StampedPcs == {Stamped(pc) : pc \in WritePcs}

ReplacedPcs == {Replaced(pc) : pc \in StampedPcs}

\* Is worker i inside `with self._cache_write_lock`?
InWrite(i) ==
    /\ hybrid.phase = "running"
    /\ i \in 1..Len(hybrid.plan)
    /\ hybrid.w[i].pc \in StampedPcs \cup ReplacedPcs

\* A lock that every thread can enter at any time.
CacheWriteLockFreeAlways == TRUE

\* A lock that stays taken once a write of the call has gone through it.
CacheWriteLockNeverReleased ==
    /\ write_log = <<>>
    /\ \A i \in 1..MaxDay : ~InWrite(i)

\* threading.Lock: _cache_write_lock can be acquired when no thread is
\* inside the with block.
CacheWriteLockFree == \A i \in 1..MaxDay : ~InWrite(i)

\* The arguments of the _write_cache_file call worker record w is at:
\* the day, the records, fetched_on_date and the caller.
WriteArgs(w) ==
    IF w.pc \in {"write", "write_stamped", "write_replaced"}
    THEN [day |-> w.cur, logs |-> w.got, fetched_on |-> execution_date,
          by |-> "fetch"]
    ELSE IF w.pc \in {"bulk_write", "bulk_write_stamped",
                      "bulk_write_replaced"}
    THEN [day |-> w.cur, logs |-> w.bydays.logs[w.cur],
          fetched_on |-> execution_date, by |-> "bulk"]
    ELSE [day |-> CHOOSE x \in w.todo : \A y \in w.todo : x <= y,
          logs |-> w.held.logs, fetched_on |-> w.held.fetched_on_date,
          by |-> "upgrade"]

\* _write_cache_file: the lock is taken and the scan for the stamp is
\* made (a memo hit, or a walk that is memoized).
WriteBegin(i) ==
    /\ hybrid.phase = "running"
    /\ i \in 1..Len(hybrid.plan)
    /\ hybrid.w[i].pc \in WritePcs
    /\ CacheWriteLockFree
    /\ LET w == hybrid.w[i]
           sc == ScanCacheDirectory(Cur)
       IN Advance(i, [w EXCEPT !.pc = Stamped(w.pc), !.snap = sc.data],
                  sc.m)

\* _write_cache_file: tmp.write_text and tmp.replace(cache_path) with the
\* stamp computed from the scan.
WriteReplace(i) ==
    /\ hybrid.phase = "running"
    /\ i \in 1..Len(hybrid.plan)
    /\ hybrid.w[i].pc \in StampedPcs
    /\ LET w == hybrid.w[i]
           a == WriteArgs(w)
           confirmed == GetMaxKnownNonEmptyDataDate(w.snap, a.day)
       IN Advance(i, [w EXCEPT !.pc = Replaced(w.pc),
                               !.snap = NoMemo.data],
                  [Cur EXCEPT
                     !.store[a.day] = Entry(a.logs, a.day, a.fetched_on,
                                            confirmed),
                     !.writes = Append(@, [day |-> a.day,
                                           confirmed |-> confirmed,
                                           logs |-> a.logs, by |-> a.by,
                                           evidence |-> Evidence(store)])])

\* _write_cache_file: the memo is cleared and the lock left; the caller
\* goes on (fetch_day and the bulk loop mark the day fetched).
WriteEnd(i) ==
    /\ hybrid.phase = "running"
    /\ i \in 1..Len(hybrid.plan)
    /\ hybrid.w[i].pc \in ReplacedPcs
    /\ LET w == hybrid.w[i]
           a == WriteArgs(w)
           effective_end == MinOf2(hybrid.plan[i].end, execution_date)
           cleared == [Cur EXCEPT !.memo = NoMemo]
       IN IF a.by = "fetch"
          THEN Advance(i, NextDay(i, w, w.got), MarkFetched(cleared, a.day))
          ELSE IF a.by = "upgrade"
          THEN Advance(i, UpgradeNext(i, w, a.day), cleared)
          ELSE IF w.cur + 1 <= effective_end
          THEN Advance(i, [w EXCEPT !.pc = "bulk_write", !.cur = w.cur + 1],
                       MarkFetched(cleared, a.day))
          ELSE IF LatestNonEmpty(w.bydays) # NoDate
          THEN Advance(i, [w EXCEPT !.pc = "scan"],
                       MarkFetched(cleared, a.day))
          ELSE Advance(i, BulkDone(i, w), MarkFetched(cleared, a.day))

(* The streamers write through _save_logs and a cache backend instead:    *)
(* the stamp is computed from backend.scan (a walk without memo) before   *)
(* FilesystemCacheBackend.write takes _WRITE_LOCK for the swap.  Two      *)
(* threads of HybridStreamer's pool, each with the records of one day of  *)
(* its gap in hand, are followed through _save_logs.                      *)

\* A pool thread that has fetched day d and is about to call _save_logs;
\* begun will hold the number of writes completed when its call started,
\* seen the non-empty days of the directory at that moment.
Saver(d) ==
    [NewWorker([start |-> d, end |-> d, strategy |-> "daily"])
       EXCEPT !.pc = "save", !.got = RemoteDay(d, "asc")]
      @@ [begun |-> 0, seen |-> {}]

\* _execute_hybrid_plan with several gaps: the pool runs execute_gap for
\* each, and two of them have reached _save_logs.
SaveLogsBegin ==
    /\ call.op = "none"
    /\ \E d1 \in Days, d2 \in Days :
          /\ d1 < d2
          /\ d2 <= execution_date
          /\ hybrid' = [phase |-> "saving",
                        plan |-> <<[start |-> d1, end |-> d1,
                                    strategy |-> "daily"],
                                   [start |-> d2, end |-> d2,
                                    strategy |-> "daily"]>>,
                        down |-> {},
                        w |-> <<Saver(d1), Saver(d2)>>]
          /\ call' = [NoCall EXCEPT !.op = "save_logs", !.start = d1,
                                    !.end = d2]
    /\ store0' = store
    /\ UNCHANGED <<execution_date, remote, irregular, store, cache_scan_cache,
                   fetched, result, raised, request_log, write_log>>

\* Is pool thread i of the streamer at pc?
Saving(i, pc) ==
    /\ hybrid.phase = "saving"
    /\ i \in 1..Len(hybrid.plan)
    /\ hybrid.w[i].pc = pc

\* A backend lock that every thread can enter at any time.
BackendWriteLockFreeAlways == TRUE

\* FilesystemCacheBackend._WRITE_LOCK can be acquired when no thread is
\* inside write's with block.
BackendWriteLockFree == \A i \in 1..MaxDay : ~Saving(i, "save_locked")

\* _save_logs: _get_max_known_non_empty_data_date over backend.scan.
SaveLogsStamp(i) ==
    /\ Saving(i, "save")
    /\ Advance(i, [hybrid.w[i] EXCEPT !.pc = "save_stamped",
                                      !.snap = ScanRows(store),
                                      !.begun = Len(write_log),
                                      !.seen = Evidence(store)],
               Cur)

\* backend.write: the entry is built and _WRITE_LOCK taken.
BackendWriteAcquire(i) ==
    /\ Saving(i, "save_stamped")
    /\ BackendWriteLockFree
    /\ Advance(i, [hybrid.w[i] EXCEPT !.pc = "save_locked"], Cur)

\* backend.write: the swap of the temp file; the lock is left.
BackendWriteReplace(i) ==
    /\ Saving(i, "save_locked")
    /\ LET w == hybrid.w[i]
           confirmed == GetMaxKnownNonEmptyDataDate(w.snap, w.cur)
       IN Advance(i, [w EXCEPT !.pc = "saved", !.snap = NoMemo.data],
                  [Cur EXCEPT
                     !.store[w.cur] = Entry(w.got, w.cur, execution_date,
                                            confirmed),
                     !.writes = Append(@, [day |-> w.cur,
                                           confirmed |-> confirmed,
                                           logs |-> w.got, by |-> "save",
                                           evidence |-> w.seen,
                                           begun |-> w.begun])])

NextLock ==
    \/ HybridBegin
    \/ SaveLogsBegin
    \/ \E i \in 1..MaxDay : SaveLogsStamp(i)
    \/ \E i \in 1..MaxDay : BackendWriteAcquire(i)
    \/ \E i \in 1..MaxDay : BackendWriteReplace(i)
    \/ \E i \in 1..MaxDay : DailyFetch(i)
    \/ \E i \in 1..MaxDay : BulkRequest(i)
    \/ \E i \in 1..MaxDay : WriteBegin(i)
    \/ \E i \in 1..MaxDay : WriteReplace(i)
    \/ \E i \in 1..MaxDay : WriteEnd(i)
    \/ \E i \in 1..MaxDay : UpgradeScan(i)
    \/ \E i \in 1..MaxDay : UpgradeMemoize(i)
    \/ \E i \in 1..MaxDay : UpgradeRead(i)
    \/ HybridJoin

SpecLock == InitWorkers /\ [][NextLock]_vars

\* The caller leaves the executor's with block: HybridJoin as the phase of
\* the call shows it.
HybridLeaves ==
    /\ hybrid.phase = "running"
    /\ \A i \in 1..Len(hybrid.plan) : hybrid.w[i].pc = "done"
    /\ hybrid' = [hybrid EXCEPT !.phase = "done"]

\* The steps of the gap workers of ex.map(execute_gap, plan).
HybridThreads ==
    \/ \E i \in 1..MaxDay : DailyFetch(i)
    \/ \E i \in 1..MaxDay : BulkRequest(i)
    \/ \E i \in 1..MaxDay : WriteBegin(i)
    \/ \E i \in 1..MaxDay : WriteReplace(i)
    \/ \E i \in 1..MaxDay : WriteEnd(i)
    \/ \E i \in 1..MaxDay : UpgradeScan(i)
    \/ \E i \in 1..MaxDay : UpgradeMemoize(i)
    \/ \E i \in 1..MaxDay : UpgradeRead(i)

\* The same call under a scheduler that keeps running some runnable thread:
\* ThreadPoolExecutor starts every submitted gap, the interpreter switches
\* between runnable threads, and the executor's with block waits for them.
SpecLockFair ==
    SpecLock /\ WF_vars(HybridThreads) /\ WF_hybrid(HybridLeaves)

----------------------------------------------------------------------------
(* One session of a CacheManager taken operation by operation: days are    *)
(* fetched, a probe may run, and _post_run_upgrade_confirmations ends the  *)
(* session, as at the end of the per-day loop, of a bulk fetch and of a    *)
(* hybrid plan.  store0 is the directory as the upgrade found it.          *)

\* The requests of the session that failed.
SessionFailures ==
    {k \in 1..Len(request_log) : ~request_log[k].ok}

\* The next request of the session fails or not; at most MaxFailures fail.
SessionDown(target) ==
    {{}} \cup (IF Cardinality(SessionFailures) < MaxFailures
               THEN {{target}} ELSE {})

\* The session goes on with the manager left as m.
SessionStep(m) ==
    /\ Commit(m)
    /\ call' = [NoCall EXCEPT !.op = "session"]
    /\ UNCHANGED <<execution_date, remote, irregular, result, raised,
                   store0, hybrid>>

\* fetch_day for a day not asked for before in the session.
SessionFetch ==
    /\ call.op \in {"none", "session"}
    /\ \E day \in 1..execution_date, direction \in Directions :
          /\ \A k \in 1..Len(request_log) :
                ~(request_log[k].kind = "date" /\ request_log[k].day = day)
          /\ NeedsFetch(store[day], day, FALSE)
          /\ \E down \in SessionDown(<<"date", day>>) :
                SessionStep(FetchDay(Cur, day, direction, FALSE, down).m)

\* The probe of the session.
SessionProbe ==
    /\ call.op \in {"none", "session"}
    /\ \A k \in 1..Len(request_log) : request_log[k].kind # "probe"
    /\ \E day \in 1..execution_date, direction \in Directions :
          \E down \in SessionDown(<<"probe", day>>) :
             SessionStep(PerformLatestDataProbe(Cur, day, direction, down).m)

\* _post_run_upgrade_confirmations(final_max_date, execution_date), called
\* with a day the session holds records of.
SessionUpgrade ==
    /\ call.op = "session"
    /\ \E final_max_date \in Evidence(store) :
          /\ Commit(PostRunUpgradeConfirmations(Cur, final_max_date))
          /\ call' = [NoCall EXCEPT !.op = "upgraded", !.day = final_max_date]
    /\ store0' = store
    /\ UNCHANGED <<execution_date, remote, irregular, result, raised, hybrid>>

InitSession ==
    /\ execution_date = MaxDay - 1
    /\ remote \in SUBSET (1..(MaxDay - 1))
    /\ irregular = <<>>
    /\ store \in SeededStores(MaxDay, 1)
    /\ cache_scan_cache = NoMemo
    /\ fetched = {}
    /\ call = NoCall
    /\ result = <<>>
    /\ raised = FALSE
    /\ request_log = <<>>
    /\ write_log = <<>>
    /\ store0 = store
    /\ hybrid = NoHybrid

NextSession == SessionFetch \/ SessionProbe \/ SessionUpgrade

SpecSession == InitSession /\ [][NextSession]_vars

----------------------------------------------------------------------------
(* A per-day range request whose queries all succeed, followed by the same *)
(* request again: in the same process (the manager as the first call left  *)
(* it) or in a new one (a new CacheManager over the same directory).       *)
(* store0 stays the directory as the first call found it; request_log and  *)
(* write_log are those of the call made last.                              *)

\* The first call.
FirstCall ==
    /\ call.op = "none"
    /\ \E start \in Days, end \in Days, direction \in Directions :
          /\ start <= end
          /\ StreamRangeCall("PER_DAY", start, end, direction, NoLimit,
                             FALSE, <<>>, {})

\* The identical call, immediately after.
RepeatCall ==
    /\ call.op = "stream_range"
    /\ \E fresh \in BOOLEAN :
          LET m0 == IF fresh
                    THEN [Start EXCEPT !.memo = NoMemo, !.fetched = {}]
                    ELSE Start
              r == StreamRange(m0, call.strategy, call.start, call.end,
                               call.direction, call.max_results,
                               call.force_cache, <<>>, {})
          IN /\ Commit(r.m)
             /\ call' = [call EXCEPT !.op = "repeated", !.found = fresh]
             /\ result' = r.out
             /\ raised' = r.raised
    /\ UNCHANGED <<execution_date, remote, irregular, store0, hybrid>>

NextRepeat == FirstCall \/ RepeatCall

SpecRepeat == Init /\ [][NextRepeat]_vars

----------------------------------------------------------------------------
(* The standalone script limitless.py keeps an older CacheManager: no     *)
(* locks, no memoized scan, no stamp upgrade.  A write walks the          *)
(* directory for the stamp (the day's own records count) and then calls   *)
(* cache_path.write_text, which truncates the file when it opens it and   *)
(* stores the text when it closes it.  stream_range runs its probe in a   *)
(* thread of its own next to the loop over the days; with parallel > 1    *)
(* the probe runs first and every day is fetched by a pool thread.        *)
(* A step is the lookup and query of one day, the probe's query, the walk *)
(* and open of a write, or its close.  A file open for writing reads as   *)
(* an empty text, which json.loads rejects like any corrupt file.         *)
(* Calls are followed with cache-only off and no limit, over directories  *)
(* whose files are all readable.                                          *)

\* fetch_day of the script: a past day's entry is served from the cache
\* when confirmed_obj >= data_date_from_file.
ScriptTrusted(f, day) ==
    /\ Readable(f)
    /\ ReadCacheFile(f, day).confirmed # NoDate
    /\ ReadCacheFile(f, day).confirmed >= ReadCacheFile(f, day).data_date

\* _get_max_known_non_empty_data_date of the script: the latest day with
\* records among the readable files dated <= execution_date and, when
\* logs is non-empty, the day being written.
ScriptMaxKnown(st, data_date, logs) ==
    MaxOf(Evidence(st) \cup (IF logs # <<>> THEN {data_date} ELSE {}))

\* most_recent_cached_date is not None: some file dated after the range
\* and not after execution_date holds records.
ScriptLaterCache(st, days) ==
    \E cd \in Days : /\ cd > MaxOf(days)
                     /\ cd <= execution_date
                     /\ Readable(st[cd])
                     /\ st[cd].logs # <<>>

\* all_days_have_complete_cache
ScriptAllComplete(st, days) ==
    \A d \in days : /\ d # execution_date
                    /\ Exists(st[d])
                    /\ ScriptTrusted(st[d], d)

\* need_probe (cache-only off) together with the test that the range
\* ends before execution_date.
ScriptNeedProbe(st, days) ==
    /\ ~ScriptLaterCache(st, days)
    /\ \E d \in days : d < execution_date
    /\ ~ScriptAllComplete(st, days)
    /\ MaxOf(days) < execution_date

\* A thread of the script: the main thread or a pool thread working
\* through the days cur, cur - 1, .. last, or the probe thread.
ScriptThread(role, cur, last) ==
    [role |-> role, pc |-> IF role = "probe" THEN "probe" ELSE "fetch",
     cur |-> cur, last |-> last, got |-> <<>>, confirmed |-> NoDate,
     local |-> EmptyDict]

RECURSIVE PoolThreads(_)
\* executor.map(fetch_one_day, days_to_fetch_internally): a thread per
\* day, latest day first.
PoolThreads(days) ==
    IF days = {} THEN <<>>
    ELSE <<ScriptThread("day", MaxOf(days), MaxOf(days))>>
            \o PoolThreads(days \ {MaxOf(days)})

\* _write_cache_file of the script run without another thread.
ScriptWrite(m, d, logs, by) ==
    [m EXCEPT
       !.store[d] = Entry(logs, d, execution_date,
                          ScriptMaxKnown(m.store, d, logs)),
       !.writes = Append(@, [day |-> d,
                             confirmed |-> ScriptMaxKnown(m.store, d, logs),
                             logs |-> logs, by |-> by,
                             evidence |-> Evidence(m.store),
                             kept |-> TRUE])]

\* _perform_latest_data_probe of the script run inline, as the threaded
\* wrapper does before it starts the pool.
ScriptProbeInline(m, probe_day, direction, down) ==
    IF <<"probe", probe_day>> \in down
    THEN Request(m, "probe", probe_day, probe_day, FALSE)
    ELSE IF Truncate(RemoteDay(probe_day, direction), 1) = <<>>
    THEN Request(m, "probe", probe_day, probe_day, TRUE)
    ELSE ScriptWrite(Request(m, "probe", probe_day, probe_day, TRUE),
                     probe_day,
                     Truncate(RemoteDay(probe_day, direction), 1), "probe")

\* The requests a call of the script over `days` can issue.
ScriptTargets(days) ==
    {<<"date", d>> : d \in days}
    \cup (IF MaxOf(days) < execution_date
          THEN {<<"probe", MaxOf(days) + 1>>} ELSE {})

\* stream_range of the script up to the start of its threads.  With
\* parallel = 1 the probe thread is started and the main thread enters
\* the loop over the days; with parallel > 1 the probe has run and the
\* pool is started.
ScriptBegin ==
    /\ call.op = "none"
    /\ \E start \in Days, end \in Days, direction \in Directions,
          threaded \in BOOLEAN :
          /\ start <= end
          /\ start <= execution_date
          /\ LET days == {d \in start..end : d <= execution_date}
                 probing == ScriptNeedProbe(store, days)
                 probe_date == MaxOf(days) + 1
             IN \E down \in FailureSets(ScriptTargets(days)) :
                   /\ hybrid' =
                        [phase |-> "script", plan |-> <<>>, down |-> down,
                         w |-> IF threaded THEN PoolThreads(days)
                               ELSE <<ScriptThread("main", MaxOf(days),
                                                   start)>>
                                    \o (IF probing
                                        THEN <<ScriptThread("probe",
                                                            probe_date,
                                                            probe_date)>>
                                        ELSE <<>>)]
                   /\ Commit(IF threaded /\ probing
                             THEN ScriptProbeInline(Start, probe_date,
                                                    direction, down)
                             ELSE Start)
          /\ call' = [NoCall EXCEPT !.op = "script", !.start = start,
                                    !.end = end, !.direction = direction,
                                    !.strategy = IF threaded THEN "THREADED"
                                                 ELSE "SEQUENTIAL"]
    /\ store0' = store
    /\ UNCHANGED <<execution_date, remote, irregular, result, raised>>

\* Is thread i of a running script call at pc?
ScriptAt(i, pc) ==
    /\ hybrid.phase = "script"
    /\ i \in 1..Len(hybrid.w)
    /\ hybrid.w[i].pc = pc

\* A thread has the records of its day: the loop goes on or ends.
ScriptNextDay(w, logs) ==
    [w EXCEPT !.local = Put(@, w.cur, logs),
              !.got = <<>>,
              !.confirmed = NoDate,
              !.cur = IF w.cur = w.last THEN w.cur ELSE w.cur - 1,
              !.pc = IF w.cur = w.last THEN "done" ELSE "fetch"]

\* ThreadPoolExecutor(max_workers=parallel) hands the days to its threads
\* in the order of the list: day i is taken up once the days before it
\* have been, and while fewer than Parallel days are being worked on.
ScriptMayStart(i) ==
    hybrid.w[i].role = "day" =>
       /\ \A j \in 1..(i - 1) : hybrid.w[j].pc # "fetch"
       /\ Cardinality({j \in 1..Len(hybrid.w) :
                          hybrid.w[j].pc \in {"open", "close"}}) < Parallel

\* fetch_day of the script up to the end of the remote query.
ScriptFetch(i) ==
    /\ ScriptAt(i, "fetch")
    /\ ScriptMayStart(i)
    /\ LET w == hybrid.w[i]
           day == w.cur
           f == store[day]
           m1 == [Cur EXCEPT !.store = UnlinkIfCorrupt(@, day)]
       IN IF day < execution_date /\ ScriptTrusted(f, day)
          THEN Advance(i, ScriptNextDay(w, ReadCacheFile(f, day).logs), Cur)
          ELSE IF <<"date", day>> \in hybrid.down
          THEN Advance(i, ScriptNextDay(w, <<>>),
                       Request(m1, "date", day, day, FALSE))
          ELSE Advance(i, [w EXCEPT !.got = RemoteDay(day, call.direction),
                                    !.pc = "open"],
                       Request(m1, "date", day, day, TRUE))

\* _perform_latest_data_probe in the probe thread: the one-record query.
ScriptProbe(i) ==
    /\ ScriptAt(i, "probe")
    /\ LET w == hybrid.w[i]
           probe_logs == Truncate(RemoteDay(w.cur, call.direction), 1)
       IN IF <<"probe", w.cur>> \in hybrid.down
          THEN Advance(i, [w EXCEPT !.pc = "done"],
                       Request(Cur, "probe", w.cur, w.cur, FALSE))
          ELSE IF probe_logs = <<>>
          THEN Advance(i, [w EXCEPT !.pc = "done"],
                       Request(Cur, "probe", w.cur, w.cur, TRUE))
          ELSE Advance(i, [w EXCEPT !.got = probe_logs, !.pc = "open"],
                       Request(Cur, "probe", w.cur, w.cur, TRUE))

\* _write_cache_file of the script: the walk for the stamp, which unlinks
\* what json.loads rejects, and the open of write_text, which truncates.
ScriptOpen(i) ==
    /\ ScriptAt(i, "open")
    /\ LET w == hybrid.w[i]
       IN Advance(i, [w EXCEPT !.pc = "close",
                               !.confirmed = ScriptMaxKnown(store, w.cur,
                                                            w.got)],
                  [Cur EXCEPT !.store = [ScanRepair(store)
                                            EXCEPT ![w.cur] = Corrupt]])

\* The close of write_text: the text is in the file, unless the path was
\* unlinked while the file was open.
ScriptClose(i) ==
    /\ ScriptAt(i, "close")
    /\ LET w == hybrid.w[i]
           kept == store[w.cur].kind = "corrupt"
           m == [Cur EXCEPT
                   !.store[w.cur] =
                       IF kept THEN Entry(w.got, w.cur, execution_date,
                                          w.confirmed)
                       ELSE @,
                   !.writes = Append(@, [day |-> w.cur,
                                         confirmed |-> w.confirmed,
                                         logs |-> w.got,
                                         by |-> w.role,
                                         evidence |-> Evidence(store),
                                         kept |-> kept])]
       IN IF w.role = "probe"
          THEN Advance(i, [w EXCEPT !.pc = "done"], m)
          ELSE Advance(i, ScriptNextDay(w, w.got), m)

RECURSIVE ScriptLogsByDay(_, _)
\* logs_by_day: what the main thread or the pool threads gathered.
ScriptLogsByDay(n, dict) ==
    IF n > Len(hybrid.w) THEN dict
    ELSE ScriptLogsByDay(n + 1,
                         IF hybrid.w[n].role = "probe" THEN dict
                         ELSE Update(dict, hybrid.w[n].local))

\* A join that does not wait for the probe thread.
ScriptJoinedDaysOnly ==
    \A i \in 1..Len(hybrid.w) :
       hybrid.w[i].role # "probe" => hybrid.w[i].pc = "done"

\* The loop over the days has ended (or the pool has shut down) and
\* probe_thread.join() has returned.
ScriptJoined == \A i \in 1..Len(hybrid.w) : hybrid.w[i].pc = "done"

\* stream_range of the script after the join: the records are yielded in
\* the order asked for.
ScriptEmit ==
    /\ hybrid.phase = "script"
    /\ ScriptJoined
    /\ result' = OrderLogsByDirection(ScriptLogsByDay(1, EmptyDict),
                                      call.direction)
    /\ call' = [call EXCEPT !.op = "script_done"]
    /\ hybrid' = [hybrid EXCEPT !.phase = "emitted"]
    /\ UNCHANGED <<execution_date, remote, irregular, store,
                   cache_scan_cache, fetched, raised, request_log,
                   write_log, store0>>

\* Cache directories whose files are all readable.
ScriptStores ==
    {st \in InitStores : \A d \in Days : Exists(st[d]) => Readable(st[d])}

InitScript ==
    /\ execution_date = MaxDay - 1
    /\ remote \in SUBSET (1..(MaxDay - 1))
    /\ irregular = <<>>
    /\ store \in ScriptStores
    /\ cache_scan_cache = NoMemo
    /\ fetched = {}
    /\ call = NoCall
    /\ result = <<>>
    /\ raised = FALSE
    /\ request_log = <<>>
    /\ write_log = <<>>
    /\ store0 = store
    /\ hybrid = NoHybrid

NextScript ==
    \/ ScriptBegin
    \/ \E i \in 1..MaxDay : ScriptFetch(i)
    \/ \E i \in 1..MaxDay : ScriptProbe(i)
    \/ \E i \in 1..MaxDay : ScriptOpen(i)
    \/ \E i \in 1..MaxDay : ScriptClose(i)
    \/ ScriptEmit

SpecScript == InitScript /\ [][NextScript]_vars

----------------------------------------------------------------------------
(* Properties of fetch_day and of the probe (specification Spec) *)

\* The call that ran was fetch_day with cache-only mode as given.
FetchedWith(force_cache) ==
    call.op = "fetch_day" /\ call.force_cache = force_cache

\* The file fetch_day found for its day, as _read_cache_file returns it.
Found == ReadCacheFile(store0[call.day], call.day)

\* Every file of the directory is as it was, except that corrupt files
\* may have been unlinked.
OnlyRepaired ==
    \A d \in Days : store[d] # store0[d] =>
                       store0[d].kind = "corrupt" /\ store[d] = Absent

\* C2. Trust monotonicity: for a day D < execution_date whose entry has
\* a stamp > D, fetch(D) with cache-only off issues no remote call and
\* returns the cached logs, also when these are empty.
C2_TrustMonotonicity ==
    (/\ FetchedWith(FALSE)
     /\ call.day < execution_date
     /\ store0[call.day].kind = "entry"
     /\ store0[call.day].confirmed > call.day)
    => /\ request_log = <<>>
       /\ result = store0[call.day].logs

\* An empty-but-confirmed entry of a day the remote has records for was
\* served as an empty result.
C2_Witness ==
    /\ FetchedWith(FALSE)
    /\ call.day < execution_date
    /\ call.day \in remote
    /\ store0[call.day].kind = "entry"
    /\ store0[call.day].confirmed > call.day
    /\ store0[call.day].logs = <<>>
    /\ request_log = <<>>
    /\ result = <<>>

\* C3. Today exception: with cache-only off, fetch(execution_date) always
\* issues a remote call and returns the remote result, whatever entry
\* exists for execution_date.
C3_TodayException ==
    (FetchedWith(FALSE) /\ call.day = execution_date)
    => /\ Len(request_log) = 1
       /\ request_log[1].kind = "date"
       /\ request_log[1].day = execution_date
       /\ request_log[1].ok => result = RemoteDay(execution_date,
                                                  call.direction)

\* Today's entry carried a stamp after today and other logs than the
\* remote; the remote's records were returned.
C3_Witness ==
    /\ FetchedWith(FALSE)
    /\ call.day = execution_date
    /\ store0[call.day].kind = "entry"
    /\ store0[call.day].confirmed > call.day
    /\ store0[call.day].logs # <<>>
    /\ Len(request_log) = 1
    /\ request_log[1].ok
    /\ result = RemoteDay(execution_date, call.direction)
    /\ result # store0[call.day].logs

\* C4. Future skip: for D > execution_date, fetch(D) with cache-only off
\* returns empty, issues no remote call and writes nothing; with
\* cache-only on it returns the cached entry's logs if one is present and
\* empty otherwise, with no remote call.
C4_FutureSkip ==
    (call.op = "fetch_day" /\ call.day > execution_date)
    => /\ request_log = <<>>
       /\ write_log = <<>>
       /\ ~call.force_cache => result = <<>> /\ store = store0
       /\ call.force_cache =>
             result = (IF Readable(store0[call.day]) THEN Found.logs
                                                     ELSE <<>>)

\* A future day with a cached entry holding records: skipped with
\* cache-only off.
C4_Witness ==
    /\ FetchedWith(FALSE)
    /\ call.day > execution_date
    /\ Readable(store0[call.day])
    /\ store0[call.day].logs # <<>>
    /\ result = <<>>
    /\ request_log = <<>>
    /\ store = store0

\* C5. In cache-only mode fetch(day) issues no remote call and writes
\* nothing; an existing entry's logs are returned verbatim without a
\* trust check (also for execution_date and unconfirmed entries),
\* otherwise the result is empty.
C5_CacheOnly ==
    FetchedWith(TRUE)
    => /\ request_log = <<>>
       /\ write_log = <<>>
       /\ fetched = {}
       /\ OnlyRepaired
       /\ result = (IF Readable(store0[call.day]) THEN Found.logs
                                                  ELSE <<>>)

\* Cache-only fetch of execution_date with an unconfirmed entry holding
\* records the remote does not have.
C5_Witness ==
    /\ FetchedWith(TRUE)
    /\ call.day = execution_date
    /\ Readable(store0[call.day])
    /\ Found.confirmed = NoDate
    /\ Found.logs # <<>>
    /\ result = Found.logs
    /\ request_log = <<>>

C7_RefetchWrites ==
    (/\ call.op = "fetch_day"
     /\ request_log # <<>>
     /\ request_log[1].ok)
    => /\ result = RemoteDay(call.day, call.direction)
       /\ store[call.day].kind = "entry"
       /\ store[call.day].logs = result
       /\ store[call.day].data_date = call.day
       /\ store[call.day].fetched_on_date = execution_date
       /\ Len(write_log) = 1
       /\ write_log[1].day = call.day
       /\ write_log[1].logs = result
       /\ call.day \in fetched

\* A day never fetched before was refetched with an empty result: an
\* entry with logs = [] exists afterwards.
C7_Witness ==
    /\ call.op = "fetch_day"
    /\ request_log # <<>>
    /\ request_log[1].ok
    /\ result = <<>>
    /\ store0[call.day] = Absent
    /\ store[call.day].kind = "entry"
    /\ store[call.day].logs = <<>>
    /\ call.day \in fetched

\* C8. If the remote query of a per-day refetch fails, fetch returns
\* empty, writes no entry, leaves an existing entry of that day unchanged
\* and does not mark the day as fetched.
C8_FailedRefetch ==
    (/\ call.op = "fetch_day"
     /\ request_log # <<>>
     /\ ~request_log[1].ok)
    => /\ result = <<>>
       /\ write_log = <<>>
       /\ call.day \notin fetched
       /\ store0[call.day].kind # "corrupt"
          => store[call.day] = store0[call.day]
       /\ store0[call.day].kind = "corrupt" => store[call.day] = Absent
       /\ OnlyRepaired

\* The refetch of an untrusted entry holding records failed; the entry
\* is still there.
C8_Witness ==
    /\ call.op = "fetch_day"
    /\ request_log # <<>>
    /\ ~request_log[1].ok
    /\ store0[call.day].kind = "entry"
    /\ store0[call.day].logs # <<>>
    /\ store[call.day] = store0[call.day]
    /\ result = <<>>

\* C10. probe(candidate_day) returns true and writes an entry for
\* candidate_day iff the remote returned at least one record; on an empty
\* result or a failure it returns false and leaves the cache unchanged.
C10_Probe ==
    call.op = "probe"
    => /\ Len(request_log) = 1
       /\ request_log[1].kind = "probe"
       /\ call.found <=> (request_log[1].ok /\ call.day \in remote)
       /\ call.found =>
             /\ Len(write_log) = 1
             /\ write_log[1].day = call.day
             /\ store[call.day].kind = "entry"
             /\ store[call.day].logs =
                   Truncate(RemoteDay(call.day, call.direction), 1)
       /\ ~call.found => write_log = <<>> /\ store = store0

\* A probe of a day without remote records, over a cache that holds
\* another entry for that day: false, entry untouched.
C10_Witness ==
    /\ call.op = "probe"
    /\ request_log[1].ok
    /\ call.day \notin remote
    /\ Exists(store0[call.day])
    /\ ~call.found
    /\ store = store0

----------------------------------------------------------------------------
(* Properties of stream_range (specification SpecRange) *)

\* Record r of day r.date was returned by a successful remote query of
\* the running call that covered its day.
FromRemoteQuery(r) ==
    /\ r.date \in remote
    /\ r \in {Rec(1, r.date), Rec(2, r.date)}
    /\ \E j \in 1..Len(request_log) :
          /\ request_log[j].ok
          /\ request_log[j].day <= r.date
          /\ r.date <= request_log[j].end

\* Record r was held by a trustworthy entry when the call started.
FromTrustedEntry(r) ==
    /\ store0[r.date].kind = "entry"
    /\ store0[r.date].confirmed # NoDate
    /\ store0[r.date].confirmed > store0[r.date].data_date
    /\ \E k \in 1..Len(store0[r.date].logs) : store0[r.date].logs[k] = r

\* C1. With cache-only mode off, every record stream_range emits for a
\* day before execution_date comes from a remote query made during the
\* call or from a trustworthy cache entry; logs of untrusted, legacy or
\* unconfirmed entries of past days are never emitted.
C1_Provenance ==
    (call.op = "stream_range" /\ ~call.force_cache)
    => \A i \in 1..Len(result) :
          result[i].date < execution_date
             => FromRemoteQuery(result[i]) \/ FromTrustedEntry(result[i])

\* The same statement for the per-day and bulk strategies only.
C1_ProvenanceWithoutHybrid ==
    call.strategy # "HYBRID" => C1_Provenance

----------------------------------------------------------------------------
(* Properties of the stamp computation *)

\* C9. Whenever an entry is written for day d under execution date E (by
\* a day fetch, a bulk fetch, a probe or a stamp upgrade), its
\* confirmed_complete_up_to_date equals the maximum data_date among the
\* cached entries with non-empty logs and d < data_date <= E, and is
\* absent when there is none.
C9_StampIsMaximum ==
    \A k \in 1..Len(write_log) :
       write_log[k].confirmed =
          MaxOf({x \in write_log[k].evidence : x > write_log[k].day})

----------------------------------------------------------------------------
(* Properties of the probe of a range request (specification SpecRange) *)

\* Positions of the probe queries in the request log.
ProbesIssued == {j \in 1..Len(request_log) : request_log[j].kind = "probe"}

\* The entry of day d was trustworthy when the call started.
TrustedAtStart(d) ==
    /\ store0[d].kind = "entry"
    /\ store0[d].confirmed # NoDate
    /\ store0[d].confirmed > store0[d].data_date

\* Conditions (b), (c) and (d) of the trigger policy, on the cache as the
\* call found it.
NoLaterDataAtStart == ~(\E d \in Evidence(store0) : d > call.end)
HasPastDay == \E d \in call.start..call.end : d < execution_date
SomeDayUntrusted == \E d \in call.start..call.end : ~TrustedAtStart(d)

\* C11. A range request issues at most one probe, and only when cache-only
\* mode is off, no cached day after the range has non-empty data, the
\* range has a day before execution_date, and not every day of the range
\* is already trustworthy.
C11_ProbePolicy ==
    call.op = "stream_range"
    => /\ Cardinality(ProbesIssued) <= 1
       /\ ProbesIssued # {}
          => /\ ~call.force_cache
             /\ NoLaterDataAtStart
             /\ HasPastDay
             /\ SomeDayUntrusted

\* The policy as _should_probe_for_completeness applies it: for (d), some
\* past day of the range is missing, empty, unstamped or stamped before
\* its own date.
C11_ProbePolicyAsCoded ==
    call.op = "stream_range"
    => /\ Cardinality(ProbesIssued) <= 1
       /\ ProbesIssued # {}
          => /\ ~call.force_cache
             /\ NoLaterDataAtStart
             /\ HasPastDay
             /\ \E d \in call.start..call.end :
                   /\ d < execution_date
                   /\ \/ ~Readable(store0[d])
                      \/ store0[d].logs = <<>>
                      \/ store0[d].confirmed = NoDate
                      \/ store0[d].confirmed < d

\* C12. The day a range request probes is the day after the range when
\* that day is not after execution_date, and execution_date otherwise; it
\* is never after execution_date.
C12_ProbeDay ==
    call.op = "stream_range"
    => \A j \in ProbesIssued :
          /\ request_log[j].day = (IF call.end + 1 <= execution_date
                                   THEN call.end + 1 ELSE execution_date)
          /\ request_log[j].day <= execution_date

\* A probe was issued for a range that reaches execution_date or beyond it.
C12_Witness ==
    /\ call.op = "stream_range"
    /\ ProbesIssued # {}
    /\ call.end >= execution_date

\* The scenario of the propagation property: nothing cached, the remote
\* holds records for execution_date only, the range is the two days
\* before execution_date, and no request fails.
PropagationScenario ==
    /\ call.op = "stream_range"
    /\ ~call.force_cache
    /\ remote = {execution_date}
    /\ \A d \in Days : store0[d] = Absent
    /\ call.start = execution_date - 2
    /\ call.end = execution_date - 1
    /\ \A j \in 1..Len(request_log) : request_log[j].ok

\* Exactly one probe, against execution_date, and both days of the range
\* end up stamped with execution_date.
ProbePropagated ==
    /\ Cardinality(ProbesIssued) = 1
    /\ \A j \in ProbesIssued : request_log[j].day = execution_date
    /\ \A d \in call.start..call.end :
          /\ store[d].kind = "entry"
          /\ store[d].confirmed = execution_date

----------------------------------------------------------------------------
(* Properties of the post-run confirmation upgrade *)

\* G: the latest day, bounded by execution_date, whose cached entry holds
\* records.
GlobalMaxNonEmpty == MaxOf(Evidence(store))

\* C14. After a range operation that fetched from the remote, no day
\* fetched during the session that lies before G, the latest cached day
\* with records, is left with a stamp older than G: a stamp that was
\* older has been rewritten to G.
C14_PostRunUpgrade ==
    call.op = "stream_range"
    => \A d \in fetched :
          d < GlobalMaxNonEmpty
             => /\ store[d].kind = "entry"
                /\ store[d].confirmed # NoDate
                /\ store[d].confirmed >= GlobalMaxNonEmpty

\* A stamp upgrade rewrote a day that its own fetch had left without the
\* final stamp.
C14_Witness ==
    /\ call.op = "stream_range"
    /\ \E k \in 1..Len(write_log) :
          /\ write_log[k].by = "upgrade"
          /\ write_log[k].confirmed = GlobalMaxNonEmpty
          /\ \E j \in 1..(k - 1) :
                /\ write_log[j].day = write_log[k].day
                /\ write_log[j].confirmed # GlobalMaxNonEmpty

----------------------------------------------------------------------------
(* Properties of the emitted sequence (specification SpecRange) *)

\* Two sequences hold the same records the same number of times.
Occurrences(seq, r) == Cardinality({i \in 1..Len(seq) : seq[i] = r})
SameMultiset(a, b) ==
    /\ Len(a) = Len(b)
    /\ \A i \in 1..Len(a) : Occurrences(a, a[i]) = Occurrences(b, a[i])

\* What the per-day path emits for the call's range and direction from the
\* cache the call started with, when no request fails.
PerDayOutput ==
    StreamRangePerDay([store |-> store0, memo |-> NoMemo, fetched |-> {},
                       reqs |-> <<>>, writes |-> <<>>],
                      call.start, call.end, call.direction, call.max_results,
                      call.force_cache, {}).out

\* A range call all of whose requests succeeded.
RangeCallWithoutFailure ==
    /\ call.op = "stream_range"
    /\ \A j \in 1..Len(request_log) : request_log[j].ok

\* No day of the range before execution_date was trustworthy at the start.
NoTrustedDayInRange ==
    \A d \in call.start..call.end :
       d < execution_date => ~TrustedAtStart(d)

DayPart(d) ==
    LET OfDay(r) == r.date = d
    IN SelectSeq(result, OfDay)

\* The days of the emitted sequence never decrease (ascending) or never
\* increase (descending).
DaysAscending ==
    \A i, j \in 1..Len(result) : i < j => result[i].date <= result[j].date
DaysDescending ==
    \A i, j \in 1..Len(result) : i < j => result[i].date >= result[j].date

\* The records of each day appear in the order in which the day was
\* fetched (the order of the remote's answer for the direction) or cached.
OrderWithinDayKept ==
    \A d \in Days :
       \/ DayPart(d) = <<>>
       \/ DayPart(d) = RemoteDay(d, call.direction)
       \/ DayPart(d) = store0[d].logs

\* C16, as stated: the days ascend when direction is "asc" and descend
\* otherwise.
C16_OutputOrderDescendingOtherwise ==
    call.op = "stream_range"
    => /\ IF call.direction = "asc" THEN DaysAscending ELSE DaysDescending
       /\ OrderWithinDayKept

\* C16. The sequence stream_range emits is grouped by day, the days
\* descending when direction is "desc" and ascending for every other
\* value, and within one day the records keep the order in which that day
\* was fetched or cached; the order in which the days were processed does
\* not show.
C16_OutputOrder ==
    call.op = "stream_range"
    => /\ IF call.direction = "desc" THEN DaysDescending ELSE DaysAscending
       /\ OrderWithinDayKept

\* A hybrid call without a direction whose gaps ran against the order of
\* the plan and which emitted cached records of one day and fetched
\* records of a later one.
C16_Witness ==
    /\ call.op = "stream_range"
    /\ call.strategy = "HYBRID"
    /\ call.direction = NoDirection
    /\ ~call.force_cache
    /\ \E i, j \in 1..Len(result) :
          /\ result[i].date < result[j].date
          /\ result[i].id = 0
          /\ result[j].id # 0
    /\ \E a, b \in 1..Len(request_log) :
          a < b /\ request_log[a].day > request_log[b].day

----------------------------------------------------------------------------
(* Properties of legacy and corrupt files (specification Spec) *)

\* fetch_day, cache-only off, found a legacy bare list for a past day.
LegacyPastDayFetch ==
    /\ call.op = "fetch_day"
    /\ ~call.force_cache
    /\ call.day < execution_date
    /\ store0[call.day].kind = "legacy"

\* C17. A legacy bare-list file of a past day is read without error as
\* (logs, data_date = day, fetched_on_date = day, no stamp), is not
\* trusted, causes exactly one query of that day, and after a successful
\* query the day's file is a structured entry holding the fetched logs.
C17_LegacyUpgrade ==
    LegacyPastDayFetch
    => /\ ~raised
       /\ ReadCacheFile(store0[call.day], call.day)
             = Entry(store0[call.day].logs, call.day, call.day, NoDate)
       /\ ~UseCache(store0[call.day], call.day, FALSE)
       /\ Len(request_log) = 1
       /\ request_log[1].kind = "date"
       /\ request_log[1].day = call.day
       /\ request_log[1].ok
          => /\ result = RemoteDay(call.day, call.direction)
             /\ store[call.day].kind = "entry"
             /\ store[call.day].logs = result
             /\ store[call.day].data_date = call.day
             /\ store[call.day].fetched_on_date = execution_date

\* The legacy file held a record the remote no longer returns and was
\* replaced by an entry with the remote's records.
C17_Witness ==
    /\ LegacyPastDayFetch
    /\ store0[call.day].logs # <<>>
    /\ request_log # <<>>
    /\ request_log[1].ok
    /\ store[call.day].kind = "entry"
    /\ store[call.day].logs # <<>>
    /\ store[call.day].logs # store0[call.day].logs

\* The call that ran was fetch_day of a day up to execution_date whose
\* file did not parse as an entry; `kinds` names the forms considered.
UnparseableFetch(kinds) ==
    /\ call.op = "fetch_day"
    /\ call.day <= execution_date
    /\ store0[call.day].kind \in kinds

\* What the claim promises after such a call.
RepairedAndRefetched ==
    /\ ~raised
    /\ call.force_cache => /\ result = <<>>
                           /\ request_log = <<>>
                           /\ store[call.day] = Absent
    /\ ~call.force_cache
       => /\ Len(request_log) = 1
          /\ request_log[1].kind = "date"
          /\ request_log[1].day = call.day
          /\ ~request_log[1].ok => /\ result = <<>>
                                   /\ store[call.day] = Absent
          /\ request_log[1].ok
             => /\ result = RemoteDay(call.day, call.direction)
                /\ store[call.day].kind = "entry"
                /\ store[call.day].logs = result
                /\ store[call.day].data_date = call.day
                /\ store[call.day].fetched_on_date = execution_date

\* C18. A corrupt stored entry is repaired by deletion on read and
\* treated as a cache miss: after the read the store holds no entry for
\* that day, no error reaches the caller, fetch_day with cache-only off
\* refetches the day and stores a valid structured entry, and with
\* cache-only on it returns empty.
C18_CorruptRepair ==
    UnparseableFetch({"corrupt", "malformed"}) => RepairedAndRefetched

\* The part of C18 the code keeps: files that are not decodable JSON.
C18_CorruptRepairUndecodable ==
    UnparseableFetch({"corrupt"}) => RepairedAndRefetched

\* A file of undecodable JSON was read with cache-only on and is gone.
C18_UndecodableRepaired ==
    /\ UnparseableFetch({"corrupt"})
    /\ call.force_cache
    /\ store[call.day] = Absent

----------------------------------------------------------------------------
(* Properties of the bulk path (specification SpecRange) *)

\* The call that ran was a range call on the bulk path that started no
\* later than execution_date and whose range query succeeded.
BulkCallCompleted ==
    /\ call.op = "stream_range"
    /\ call.strategy = "BULK"
    /\ ~call.force_cache
    /\ call.start <= execution_date
    /\ ~raised

\* The writes the bulk pass made for day d.
BulkWritesOf(d) ==
    {j \in 1..Len(write_log) : write_log[j].day = d /\ write_log[j].by = "bulk"}

\* C19. After a bulk range call over [start, end] with start <=
\* execution_date completes, a cache entry has been written for every day
\* in [start, min(end, execution_date)], a day without records included
\* (stored with logs = []), and none for a day after execution_date.
C19_BulkWritesEveryDay ==
    BulkCallCompleted
    => /\ \A d \in call.start..MinOf2(call.end, execution_date) :
             /\ BulkWritesOf(d) # {}
             /\ d \in fetched
             /\ store[d].kind = "entry"
             /\ store[d].data_date = d
             /\ d \notin remote
                => /\ \A j \in BulkWritesOf(d) : write_log[j].logs = <<>>
                   /\ store[d].logs = <<>>
       /\ \A j \in 1..Len(write_log) : write_log[j].day <= execution_date
       /\ \A d \in Days : d > execution_date => store[d] = store0[d]

\* A bulk call reaching beyond execution_date wrote an empty entry for a
\* day without records that had no file, next to a day with records.
C19_Witness ==
    /\ BulkCallCompleted
    /\ call.end > execution_date
    /\ \E d \in call.start..execution_date :
          /\ d \notin remote
          /\ store0[d] = Absent
          /\ BulkWritesOf(d) # {}
          /\ store[d].kind = "entry"
          /\ store[d].logs = <<>>
    /\ \E d \in call.start..execution_date :
          /\ d \in remote
          /\ store[d].logs # <<>>

----------------------------------------------------------------------------
(* Properties of bulk partitioning (specification SpecBulk) *)

\* The call that ran was a range call on the bulk path that started no
\* later than execution_date (in SpecBulk no request fails).
BulkCall ==
    /\ call.op = "stream_range"
    /\ call.strategy = "BULK"
    /\ call.start <= execution_date

\* The records the remote sent in answer to the range query.
Answer ==
    RangeAnswer(call.start, MinOf2(call.end, execution_date), call.direction)

\* Every record of `logs` carries the embedded date d.
AllDated(logs, d) == \A k \in 1..Len(logs) : logs[k].date = d

\* The record occurs in `logs`.
Holds(logs, r) == \E k \in 1..Len(logs) : logs[k] = r

\* The partition as the claim describes it: the call does not fail, every
\* entry written by the bulk pass for day d holds records dated d only, a
\* returned record dated with a day of the range is in the entry of that
\* day (when no limit is set), and no record without a usable date is in
\* the cache or in the output.
PartitionedByRecordDate ==
    /\ ~raised
    /\ \A j \in 1..Len(write_log) :
          write_log[j].by = "bulk"
          => AllDated(write_log[j].logs, write_log[j].day)
    /\ \A d \in call.start..MinOf2(call.end, execution_date) :
          /\ store[d].kind = "entry"
          /\ AllDated(store[d].logs, d)
    /\ call.max_results = NoLimit
       => \A i \in 1..Len(Answer) :
             Answer[i].date \in call.start..MinOf2(call.end, execution_date)
             => /\ Holds(store[Answer[i].date].logs, Answer[i])
                /\ Holds(result, Answer[i])
    /\ \A k \in 1..Len(result) :
          result[k].date \in call.start..MinOf2(call.end, execution_date)
    /\ \A d \in Days : \A k \in 1..Len(store[d].logs) :
          store[d].logs[k].date \in Days

\* C20. Bulk partitioning stores each returned record only in the bucket
\* of the day given by the first ten characters of its date field, so
\* every record of an entry written by a bulk fetch for day d carries the
\* embedded date d; a record with a missing or unparseable date is dropped
\* without failing the call and is neither in the cache nor in the output.
C20_BulkPartition ==
    BulkCall => PartitionedByRecordDate

\* The part of C20 the code keeps: answers whose date fields hold text
\* (or nothing), so that slicing the field cannot fail.
C20_BulkPartitionOfTextDates ==
    (/\ BulkCall
     /\ \A i \in 1..Len(irregular) : irregular[i].date # NonStringDate)
    => PartitionedByRecordDate

\* An answer with a record without date field and one with unparseable
\* text was partitioned: both are gone, the dated records are stored.
C20_TextDatesDropped ==
    /\ BulkCall
    /\ call.max_results = NoLimit
    /\ \E i, j \in 1..Len(irregular) :
          /\ irregular[i].date = MissingDate
          /\ irregular[j].date = BadDate
    /\ ~raised
    /\ Len(result) >= 2
    /\ \E d \in call.start..execution_date : Len(store[d].logs) = 2

----------------------------------------------------------------------------
(* Properties of the gap planner (specification SpecPlan) *)

\* The planner ran; its arguments are call.start, call.end, the
\* execution date and the memoized scan.
Planned == call.op = "plan"

\* The last day the plan may cover.
PlanLast == MinOf2(call.end, execution_date)

\* The days covered by the gaps of the plan.
PlanCovered ==
    UNION {hybrid.plan[i].start..hybrid.plan[i].end :
              i \in 1..Len(hybrid.plan)}

\* The day needs the remote, in the words of the spec: it is the execution
\* date, has no cache entry, or has a stamp that is absent or not after
\* its own date.
NeedsRemote(d) ==
    \/ d = execution_date
    \/ ~cache_scan_cache.data[d].present
    \/ cache_scan_cache.data[d].confirmed = NoDate
    \/ cache_scan_cache.data[d].confirmed <= d

\* C21. The planner returns gaps in ascending order, pairwise disjoint,
\* separated by at least one day that needs no remote, and contained in
\* [start, min(end, execution_date)]; their union is exactly the set of
\* days of that interval that need the remote.
C21_PlanGaps ==
    Planned
    => /\ \A i \in 1..Len(hybrid.plan) :
             /\ call.start <= hybrid.plan[i].start
             /\ hybrid.plan[i].start <= hybrid.plan[i].end
             /\ hybrid.plan[i].end <= PlanLast
       /\ \A i \in 1..(Len(hybrid.plan) - 1) :
             /\ hybrid.plan[i].end + 1 < hybrid.plan[i + 1].start
             /\ \A d \in (hybrid.plan[i].end + 1)..(hybrid.plan[i + 1].start - 1) :
                   ~NeedsRemote(d)
       /\ PlanCovered = {d \in call.start..PlanLast : NeedsRemote(d)}

\* A range reaching past execution_date was planned into two gaps around
\* trusted days, the second one ending at execution_date.
C21_Witness ==
    /\ Planned
    /\ call.end > execution_date
    /\ Len(hybrid.plan) = 2
    /\ hybrid.plan[2].end = execution_date
    /\ hybrid.plan[1].end > hybrid.plan[1].start
    /\ \E d \in call.start..PlanLast : d \notin PlanCovered

\* Days of the requested range up to execution_date.
PlanTotal == PlanLast - call.start + 1

\* Length of the i-th gap of the plan.
GapLength(i) == hybrid.plan[i].end - hybrid.plan[i].start + 1

\* C22. A gap is planned as bulk if and only if its length is at least
\* MIN_BULK_DAYS (3) or its length divided by the number of days of the
\* requested range up to execution_date is at least BULK_RATIO (0.4, i.e.
\* 5 * length >= 2 * total), and as daily otherwise; a 2-day gap in a
\* 5-day range is bulk and a 1-day gap in a 3-day range is daily.
C22_GapStrategy ==
    Planned
    => \A i \in 1..Len(hybrid.plan) :
          /\ hybrid.plan[i].strategy \in {"bulk", "daily"}
          /\ hybrid.plan[i].strategy = "bulk"
             <=> (GapLength(i) >= 3 \/ 5 * GapLength(i) >= 2 * PlanTotal)
          /\ GapLength(i) = 2 /\ PlanTotal = 5
             => hybrid.plan[i].strategy = "bulk"
          /\ GapLength(i) = 1 /\ PlanTotal = 3
             => hybrid.plan[i].strategy = "daily"

\* A five-day range was planned with a two-day gap as bulk and a one-day
\* gap as daily.
C22_Witness ==
    /\ Planned
    /\ PlanTotal = 5
    /\ \E i \in 1..Len(hybrid.plan) :
          GapLength(i) = 2 /\ hybrid.plan[i].strategy = "bulk"
    /\ \E i \in 1..Len(hybrid.plan) :
          GapLength(i) = 1 /\ hybrid.plan[i].strategy = "daily"

----------------------------------------------------------------------------
(* Properties of hybrid range calls (specification SpecRange) *)

\* The call that ran was a range call on the hybrid path.
HybridCall ==
    /\ call.op = "stream_range"
    /\ call.strategy = "HYBRID"
    /\ ~call.force_cache
    /\ call.start <= execution_date

\* The plan the call computed from the directory it found.
PlanAtStart == PlanHybridFetch(call.start, call.end, ScanRows(store0))

\* Day d of the range is covered by no gap of that plan.
Uncovered(d) ==
    /\ d \in call.start..MinOf2(call.end, execution_date)
    /\ \A i \in 1..Len(PlanAtStart) :
          d < PlanAtStart[i].start \/ d > PlanAtStart[i].end

\* Some request of the call asked for day d.
Queried(d) ==
    \E j \in 1..Len(request_log) :
       /\ request_log[j].day <= d
       /\ d <= request_log[j].end

\* C23. In a hybrid range call a day of the range covered by no planned
\* gap causes no remote query, keeps its cache entry as it was, and
\* contributes exactly the logs of that entry to the output; when the plan
\* is empty the call issues no remote query at all.
C23_UncoveredFromCache ==
    HybridCall
    => /\ \A d \in Days :
             Uncovered(d)
             => /\ ~Queried(d)
                /\ \A j \in 1..Len(write_log) : write_log[j].day # d
                /\ store[d] = store0[d]
                /\ store0[d].kind = "entry"
                /\ DayPart(d) = store0[d].logs
       /\ PlanAtStart = <<>> => request_log = <<>>

\* A hybrid call fetched a gap next to a trusted day holding a record,
\* which was emitted from the cache.
C23_Witness ==
    /\ HybridCall
    /\ request_log # <<>>
    /\ write_log # <<>>
    /\ \E d \in Days :
          /\ Uncovered(d)
          /\ store0[d].logs # <<>>
          /\ DayPart(d) = store0[d].logs

\* A hybrid call over trusted days only: nothing was queried.
C23_EmptyPlanReached ==
    /\ HybridCall
    /\ PlanAtStart = <<>>
    /\ result # <<>>

----------------------------------------------------------------------------
(* Properties of failing requests in a range call (specification SpecRange) *)

\* The call that ran was a range call that fetches by day or by gap.
UnitwiseCall ==
    /\ call.op = "stream_range"
    /\ call.strategy \in {"PER_DAY", "HYBRID"}
    /\ ~call.force_cache
    /\ call.start <= execution_date

\* The requests that fetch records of day d (a probe does not).
FetchesOf(d) ==
    {j \in 1..Len(request_log) :
        /\ request_log[j].kind \in {"date", "range"}
        /\ request_log[j].day <= d
        /\ d <= request_log[j].end}

\* Day d had to be fetched: it is the execution date or was not
\* trustworthy in the directory the call found.
ToFetch(d) == d = execution_date \/ ~TrustedAtStart(d)

\* C24. Failure isolation: a failed query for one day (per-day fetching)
\* or for one gap (hybrid) does not keep the other days or gaps of the
\* request from being fetched, cached and emitted; the call completes and
\* returns the records of every unit that succeeded.
C24_FailureIsolation ==
    UnitwiseCall
    => /\ ~raised
       /\ \A d \in call.start..MinOf2(call.end, execution_date) :
             /\ ToFetch(d) => Cardinality(FetchesOf(d)) = 1
             /\ \A j \in FetchesOf(d) :
                   request_log[j].ok
                   => /\ DayPart(d) = RemoteDay(d, call.direction)
                      /\ store[d].kind = "entry"
                      /\ store[d].logs = RemoteDay(d, call.direction)
                      /\ d \in fetched

\* A hybrid call with two gaps: the query of the gap that ran first
\* failed, the other gap was fetched afterwards and delivered records.
C24_Witness ==
    /\ UnitwiseCall
    /\ call.strategy = "HYBRID"
    /\ Len(PlanAtStart) = 2
    /\ \E i, j \in 1..Len(request_log) :
          /\ i < j
          /\ ~request_log[i].ok
          /\ request_log[j].ok
          /\ request_log[j].day \in remote
          /\ DayPart(request_log[j].day) # <<>>
          /\ store[request_log[j].day].logs # <<>>

----------------------------------------------------------------------------
(* Properties of cache-only range calls (specification SpecRange) *)

\* The call that ran was a range call in cache-only mode.
CacheOnlyRangeCall == call.op = "stream_range" /\ call.force_cache

\* What the cache held for day d of the range when the call started.
CachedLogsAtStart(d) ==
    IF /\ d \in call.start..MinOf2(call.end, execution_date)
       /\ Readable(store0[d])
    THEN ReadCacheFile(store0[d], d).logs
    ELSE <<>>

----------------------------------------------------------------------------
(* Properties of limited range calls (specification SpecLimit) *)

\* The call that ran was a range call with max_results set.
LimitedCall == call.op = "stream_range" /\ call.max_results # NoLimit

\* The sequence the same call emits without max_results, from the same
\* directory and remote (the gaps of a hybrid plan taken in plan order).
UnlimitedOutput ==
    StreamRange([store |-> store0, memo |-> NoMemo, fetched |-> {},
                 reqs |-> <<>>, writes |-> <<>>],
                call.strategy, call.start, call.end, call.direction, NoLimit,
                call.force_cache,
                [i \in 1..Len(PlanAtStart) |-> i], {}).out

\* At most n records, the first n of the unlimited sequence.
FirstOfUnlimited ==
    /\ Len(result) <= call.max_results
    /\ result = Truncate(UnlimitedOutput, call.max_results)

\* C26. With max_results = n, stream_range of every strategy emits at
\* most n records, the first n of the sequence the same call would emit
\* without max_results (exactly n when at least n are available).
C26_MaxResults ==
    LimitedCall => FirstOfUnlimited

\* The part of C26 the code keeps: the per-day and hybrid paths (and every
\* cache-only call), and the bulk path for n >= 1 with direction asc or
\* desc.
C26_MaxResultsOutsideBulk ==
    (/\ LimitedCall
     /\ \/ call.strategy # "BULK"
        \/ call.force_cache
        \/ call.max_results >= 1 /\ call.direction \in Directions)
    => FirstOfUnlimited

\* A hybrid call with limit 3 emitted three of at least four records.
C26_LimitedHybridReached ==
    /\ LimitedCall
    /\ call.strategy = "HYBRID"
    /\ ~call.force_cache
    /\ call.max_results = 3
    /\ Len(UnlimitedOutput) >= 4
    /\ Len(result) = 3

----------------------------------------------------------------------------
(* Properties of every stamp written *)

\* The stamp of the j-th write is absent, or a day after the entry's own
\* date and not after execution_date that held non-empty logs in the
\* cache when the write took place.
StampJustified(j) ==
    \/ write_log[j].confirmed = NoDate
    \/ /\ write_log[j].confirmed > write_log[j].day
       /\ write_log[j].confirmed <= execution_date
       /\ write_log[j].confirmed \in write_log[j].evidence

----------------------------------------------------------------------------
(* Properties of concurrent writes (specification SpecLock) *)

\* The workers inside _write_cache_file's with block.
Writers == {i \in 1..MaxDay : InWrite(i)}

\* The pool threads of the streamer between the start of _save_logs'
\* stamp computation and the end of backend.write.
Savers ==
    {i \in 1..MaxDay : Saving(i, "save_stamped") \/ Saving(i, "save_locked")}

\* The pool threads inside backend.write's with block.
Replacers == {i \in 1..MaxDay : Saving(i, "save_locked")}

\* C28: cache writes are mutually exclusive: at any time at most one
\* thread is between the start of its stamp computation and the end of
\* its entry replacement, whether the write comes from a daily gap, a
\* bulk gap, the stamp upgrade or a streamer's _save_logs.
C28_WriteMutualExclusion == Cardinality(Writers \cup Savers) <= 1

\* C28 as the code has it: in CacheManager at most one thread is inside
\* a write, stamp computation included; in a streamer at most one thread
\* is replacing an entry, while stamp computations run unlocked.
C28_ReplaceMutualExclusion ==
    /\ Cardinality(Writers) <= 1
    /\ Cardinality(Replacers) <= 1

\* An upgrade rewrite holds the manager's lock while the daily worker of
\* another gap has its records ready and waits to write.
C28_Witness ==
    /\ hybrid.phase = "running"
    /\ \E i \in Writers, j \in 1..Len(hybrid.plan) :
          /\ hybrid.w[i].pc = "upgrade_write_stamped"
          /\ hybrid.w[j].pc = "write"

\* A streamer thread replaces an entry while the other has computed its
\* stamp and waits for the backend's lock.
C28_SaverWaits ==
    \E i \in Replacers, j \in Savers : hybrid.w[j].pc = "save_stamped"

----------------------------------------------------------------------------
(* Properties of the memoized scan *)

\* C29: the memoized scan is never stale: whenever no write is in
\* progress, a memoized scan, if present, equals a fresh scan of the
\* directory; a scan that began before a concurrent write and ends after
\* that write's invalidation leaves no pre-write result in the memo.
C29_MemoFresh ==
    (Writers = {} /\ cache_scan_cache.valid)
        => cache_scan_cache.data = ScanRows(store)

----------------------------------------------------------------------------
(* Properties of stamps written by concurrent workers *)

\* The writes that were complete when write j began: for a write of the
\* manager, which holds the lock from its stamp computation on, all
\* earlier ones; for a streamer's _save_logs those replaced before its
\* stamp computation.
CompletedBefore(j) ==
    IF write_log[j].by = "save" THEN 1..write_log[j].begun ELSE 1..(j - 1)

\* Does the stamp of write j cover the non-empty entry of write k?
Reflects(j, k) ==
    (/\ write_log[k].day > write_log[j].day
     /\ write_log[k].logs # <<>>)
        => (/\ write_log[j].confirmed # NoDate
            /\ write_log[j].confirmed >= write_log[k].day)

\* C30: when several workers write concurrently, the stamp stored with
\* an entry for day d is not older than the latest non-empty later day
\* among the writes that completed before this write began.
C30_StampReflectsCompleted ==
    (hybrid.phase \in {"running", "saving"})
        => \A j \in 1..Len(write_log) :
              \A k \in CompletedBefore(j) : Reflects(j, k)

\* C30 for the writes of the streamers' _save_logs, whose stamp comes
\* from a scan made at the start of the call.
C30_SavedStampReflectsCompleted ==
    (hybrid.phase = "saving")
        => \A j \in 1..Len(write_log) :
              \A k \in CompletedBefore(j) : Reflects(j, k)

\* A streamer thread has saved a day whose stamp names the day the other
\* thread had saved, with records, before.
C30_SavedAfterLaterDay ==
    /\ hybrid.phase = "saving"
    /\ \E j \in 1..Len(write_log) : \E k \in CompletedBefore(j) :
          /\ write_log[k].day > write_log[j].day
          /\ write_log[k].logs # <<>>
          /\ write_log[j].confirmed = write_log[k].day

\* C30 without concurrency: every stamp covers the non-empty later days
\* written earlier in the same call.
C30_StampReflectsEarlier ==
    (hybrid.phase = "idle")
        => \A j \in 1..Len(write_log) :
              \A k \in 1..(j - 1) : Reflects(j, k)

----------------------------------------------------------------------------
(* Properties of the script's probe thread (specification SpecScript) *)

\* The probe threads of the running script call.
ProbeThreads ==
    {i \in 1..Len(hybrid.w) : hybrid.w[i].role = "probe"}

\* The days of the range the script call works on.
ScriptDays == {d \in call.start..call.end : d <= execution_date}

\* Has the main thread of a sequential script call fetched a day?
ScriptLoopEntered ==
    \/ hybrid.w[1].pc # "fetch"
    \/ hybrid.w[1].cur # MaxOf(ScriptDays)

\* C31: the probe thread of a range request exists before the main thread
\* fetches the first day of the range, and stream_range has yielded no
\* record and has not returned while the probe thread is still running.
C31_ProbeJoinedBeforeEmit ==
    /\ (hybrid.phase = "script" /\ call.strategy = "SEQUENTIAL"
          /\ ScriptNeedProbe(store0, ScriptDays) /\ ScriptLoopEntered)
         => ProbeThreads # {}
    /\ hybrid.phase \in {"script", "emitted"}
         => \A i \in ProbeThreads :
               hybrid.w[i].pc # "done"
                  => (result = <<>> /\ call.op # "script_done")

\* The main thread has gathered records of every day of the range while
\* the probe thread is between its query and the end of its write: nothing
\* is yielded yet.
C31_Witness ==
    /\ hybrid.phase = "script"
    /\ call.strategy = "SEQUENTIAL"
    /\ hybrid.w[1].pc = "done"
    /\ ScriptLogsByDay(1, EmptyDict) # EmptyDict
    /\ OrderLogsByDirection(ScriptLogsByDay(1, EmptyDict), "asc") # <<>>
    /\ \E i \in ProbeThreads : hybrid.w[i].pc = "close"
    /\ result = <<>>

\* The days the probe of the running script call found records on.
ProbeFound ==
    {write_log[k].day : k \in {j \in 1..Len(write_log) :
                                  write_log[j].by = "probe"}}

\* The past days of the range whose remote query succeeded in this call.
ScriptFetchedPast ==
    {d \in ScriptDays :
        /\ d < execution_date
        /\ \E k \in 1..Len(request_log) :
              /\ request_log[k].kind = "date"
              /\ request_log[k].day = d
              /\ request_log[k].ok}

\* Does day d have an entry stamped with day p or a later day?
StampedAtLeast(d, p) ==
    /\ store[d].kind = "entry"
    /\ store[d].confirmed # NoDate
    /\ store[d].confirmed >= p

\* C32: when a sequential stream_range whose probe thread found records on
\* probe day P has finished, every past day of the range fetched in the
\* call has an entry stamped P or later, whichever of the day's write and
\* the probe's write came first.
C32_FetchedDaysTrustedAfterProbe ==
    (hybrid.phase = "emitted" /\ call.strategy = "SEQUENTIAL")
       => \A p \in ProbeFound : \A d \in ScriptFetchedPast :
             StampedAtLeast(d, p)

\* The same call with the day's write begun after the probe's write ended.
C32_TrustedWhenProbeFirst ==
    (hybrid.phase = "emitted" /\ call.strategy = "SEQUENTIAL")
       => \A k \in 1..Len(write_log) :
             write_log[k].by = "probe" =>
                \A j \in (k + 1)..Len(write_log) :
                   (write_log[j].by = "main" /\ write_log[j].kept
                      /\ write_log[j].day < execution_date
                      /\ write_log[k].day \in write_log[j].evidence)
                     => StampedAtLeast(write_log[j].day, write_log[k].day)

\* The package's CacheManager runs the probe before the first fetch: after
\* a range call every past day fetched in it is stamped with the probe day
\* or a later day.
C32_ManagerTrustedAfterProbe ==
    (call.op = "stream_range" /\ ~call.force_cache)
       => \A p \in ProbeFound :
             \A d \in call.start..call.end :
                (/\ d < execution_date
                 /\ \E k \in 1..Len(request_log) :
                       /\ request_log[k].kind = "date"
                       /\ request_log[k].day = d
                       /\ request_log[k].ok)
                  => StampedAtLeast(d, p)

----------------------------------------------------------------------------
(* Properties of the worker pools (specifications SpecScript, SpecWorkers) *)

\* The days of the script call whose remote query succeeded.
ScriptFetched ==
    {d \in ScriptDays :
        \E k \in 1..Len(request_log) : /\ request_log[k].kind = "date"
                                       /\ request_log[k].day = d
                                       /\ request_log[k].ok}

\* What a run of the pooled script call with one day at a time leaves for
\* day d and returns for it: a day served from the cache keeps its file,
\* a fetched day holds the answer of its query, a failed query leaves the
\* file as it was and returns nothing.
ScriptSequentialFile(d) ==
    IF d \in ScriptFetched
    THEN [kind |-> "entry", logs |-> RemoteDay(d, call.direction)]
    ELSE [kind |-> store0[d].kind, logs |-> store0[d].logs]

ScriptSequentialLogs(d) ==
    IF d \in ScriptFetched THEN RemoteDay(d, call.direction)
    ELSE IF d < execution_date /\ ScriptTrusted(store0[d], d)
    THEN ReadCacheFile(store0[d], d).logs
    ELSE <<>>

\* C33 (per-day pool): when a pooled script call has returned, the records
\* returned and the logs stored for each day of the range are those of a
\* run with one day at a time, whatever the interleaving of the threads.
C33_PoolOrderIndependent ==
    (hybrid.phase = "emitted" /\ call.strategy = "THREADED")
       => /\ result = OrderLogsByDirection(
                         [keys |-> ScriptDays,
                          logs |-> [d \in Days |->
                                      IF d \in ScriptDays
                                      THEN ScriptSequentialLogs(d)
                                      ELSE <<>>]],
                         call.direction)
          /\ \A d \in ScriptDays :
                /\ store[d].kind = ScriptSequentialFile(d).kind
                /\ store[d].logs = ScriptSequentialFile(d).logs

\* stream_range with the hybrid strategy run with the gaps one after
\* another in the given order, from the directory the call found.
SequentialHybrid(order) ==
    StreamRange([store |-> store0, memo |-> NoMemo, fetched |-> {},
                 reqs |-> <<>>, writes |-> <<>>],
                "HYBRID", call.start, call.end, call.direction,
                call.max_results, FALSE, order, hybrid.down)

\* The hybrid part: when a hybrid call with concurrent gap workers has
\* returned, the records returned and the logs stored for each day are
\* those of the gaps run one after another, in any order.
C33_GapOrderIndependent ==
    (hybrid.phase = "done" /\ call.op = "stream_range")
       => \A order \in GapOrders(Len(hybrid.plan)) :
             /\ result = SequentialHybrid(order).out
             /\ \A d \in Days :
                   /\ store[d].kind = SequentialHybrid(order).m.store[d].kind
                   /\ store[d].logs = SequentialHybrid(order).m.store[d].logs

----------------------------------------------------------------------------
(* Properties of truncated results (specification SpecLimit) *)

\* The entry of day d is trustworthy: its stamp names a later day.
TrustedNow(d) ==
    /\ store[d].kind = "entry"
    /\ store[d].confirmed # NoDate
    /\ store[d].confirmed > store[d].data_date

\* The entry of day d holds what a full query for the day returns.
HoldsFullDay(d) == SameMultiset(store[d].logs, RemoteDay(d, "asc"))

\* C34: an entry that a range call wrote or restamped and left trustworthy
\* holds the complete result of a full query for its day; an entry written
\* from a truncated result (the probe's one-record query, a bulk query cut
\* short by max_results) is not trustworthy.
C34_TrustedEntriesComplete ==
    call.op = "stream_range"
       => \A d \in Days :
             (TrustedNow(d) /\ store[d] # store0[d]) => HoldsFullDay(d)

\* The probe part: an entry that the probe of a range call wrote from its
\* one-record query, and that the call did not write again, is not
\* trustworthy when the call returns.
C34_ProbeEntryUntrusted ==
    call.op = "stream_range"
       => \A k \in 1..Len(write_log) :
             (/\ write_log[k].by = "probe"
              /\ \A j \in (k + 1)..Len(write_log) :
                    write_log[j].day # write_log[k].day)
               => ~TrustedNow(write_log[k].day)

\* Outside the bulk path an entry left trustworthy by a range call holds
\* the full day.
C34_TrustedCompleteOutsideBulk ==
    (call.op = "stream_range" /\ call.strategy # "BULK")
       => \A d \in Days :
             (TrustedNow(d) /\ store[d] # store0[d]) => HoldsFullDay(d)

----------------------------------------------------------------------------
(* Properties of the stamp upgrade (specification SpecSession) *)

\* The upgrade has run and rewrote day d.
Upgraded(d) ==
    \E k \in 1..Len(write_log) :
       write_log[k].by = "upgrade" /\ write_log[k].day = d

\* C35: the post-run upgrade rewrites only entries of days fetched this
\* session, leaves the logs, data_date and fetched_on_date of an entry it
\* rewrites as they were, does not touch the readable entry of a day not
\* fetched this session (a probe-written one included), and neither
\* creates nor deletes an entry.
C35_UpgradeFrame ==
    call.op = "upgraded"
       => \A d \in Days :
             /\ Upgraded(d) => d \in fetched
             /\ (Readable(store0[d]) /\ d \notin fetched)
                   => store[d] = store0[d]
             /\ Readable(store0[d])
                   => /\ Readable(store[d])
                      /\ ReadCacheFile(store[d], d).logs
                            = ReadCacheFile(store0[d], d).logs
                      /\ ReadCacheFile(store[d], d).data_date
                            = ReadCacheFile(store0[d], d).data_date
                      /\ ReadCacheFile(store[d], d).fetched_on_date
                            = ReadCacheFile(store0[d], d).fetched_on_date
             /\ ~Exists(store0[d]) => ~Exists(store[d])

\* The upgrade restamped a fetched day while the directory holds an entry
\* the probe wrote and the entry of a day not fetched this session.
C35_Witness ==
    /\ call.op = "upgraded"
    /\ \E d \in fetched :
          /\ Upgraded(d)
          /\ store[d].confirmed # store0[d].confirmed
    /\ \E k \in 1..Len(write_log) :
          /\ write_log[k].by = "probe"
          /\ write_log[k].day \notin fetched
          /\ store[write_log[k].day] = store0[write_log[k].day]
    /\ \E d \in Days : d \notin fetched /\ Readable(store0[d])
                          /\ store0[d].kind = "legacy"

----------------------------------------------------------------------------
(* Properties of the upgrade among concurrent gap workers (SpecWorkers) *)

\* The writes of day d that stored the answer of a query.
FetchWrites(d) ==
    {k \in 1..Len(write_log) :
        write_log[k].day = d /\ write_log[k].by \in {"fetch", "bulk"}}

C36_OtherGapsDay ==
    /\ hybrid.phase = "running"
    /\ \E i \in 1..Len(hybrid.w) :
          /\ hybrid.w[i].pc = "upgrade_write"
          /\ (CHOOSE x \in hybrid.w[i].todo :
                  \A y \in hybrid.w[i].todo : x <= y)
                \notin hybrid.plan[i].start..hybrid.plan[i].end

----------------------------------------------------------------------------
(* Properties of a failed bulk fetch (specification SpecRange) *)

\* The range queries of the call that failed.
FailedRanges ==
    {k \in 1..Len(request_log) :
        request_log[k].kind = "range" /\ ~request_log[k].ok}

\* C37: when the range query of a bulk fetch fails (a bulk call, or a bulk
\* gap of a hybrid plan), no entry is written for any day of the queried
\* range and every entry of those days is as the call found it; no day is
\* recorded as a day without records.
C37_FailedBulkWritesNothing ==
    call.op = "stream_range"
       => \A k \in FailedRanges :
             \A d \in request_log[k].day..request_log[k].end :
                /\ \A j \in 1..Len(write_log) : write_log[j].day # d
                /\ Readable(store0[d]) => store[d] = store0[d]
                /\ ~Exists(store0[d]) => ~Exists(store[d])
                /\ d \notin fetched

\* The range query of a bulk call failed over a range with a readable
\* entry and a day without file.
C37_Witness ==
    /\ call.op = "stream_range"
    /\ call.strategy = "BULK"
    /\ raised
    /\ FailedRanges # {}
    /\ \E d \in call.start..call.end : Readable(store0[d])
    /\ \E d \in call.start..call.end : ~Exists(store0[d])

\* A hybrid call one of whose bulk gaps failed while another gap was
\* fetched (reached with concurrent gap workers, specification SpecWorkers).
C37_HybridGapFailed ==
    /\ call.op = "stream_range"
    /\ call.strategy = "HYBRID"
    /\ FailedRanges # {}
    /\ write_log # <<>>

----------------------------------------------------------------------------
(* Properties of repeated and probing per-day calls (SpecRange, SpecRepeat) *)

\* No file of a day after the requested range holds records.
NoRecordsAfterRange ==
    \A d \in Days : (d > call.end /\ Readable(store0[d]))
                       => store0[d].logs = <<>>

\* C38: a per-day range request with cache-only off probes whenever no
\* cached day after the range holds records and some day of the range
\* before execution_date had no trustworthy entry.
C38_ProbeIssued ==
    (/\ call.op = "stream_range"
     /\ call.strategy = "PER_DAY"
     /\ ~call.force_cache
     /\ NoRecordsAfterRange
     /\ \E d \in call.start..call.end :
           d < execution_date /\ ~TrustedAtStart(d))
       => ProbesIssued # {}

\* The entry of day d holds records and is stamped with its own date, as
\* the standalone script stamps a day with records.
OwnDateStampAtStart(d) ==
    /\ store0[d].kind = "entry"
    /\ store0[d].logs # <<>>
    /\ store0[d].confirmed = store0[d].data_date

\* The part of C38 the code keeps: the probe is issued when the day without
\* trustworthy entry is not one that holds records stamped with its own
\* date.
C38_ProbeIssuedUnlessOwnDate ==
    (/\ call.op = "stream_range"
     /\ call.strategy = "PER_DAY"
     /\ ~call.force_cache
     /\ NoRecordsAfterRange
     /\ \E d \in call.start..call.end :
           d < execution_date /\ ~TrustedAtStart(d)
              /\ ~OwnDateStampAtStart(d))
       => ProbesIssued # {}

\* A per-day call probed for a range whose only untrusted past day had an
\* unstamped entry.
C38_ProbedForUnstamped ==
    /\ call.op = "stream_range"
    /\ call.strategy = "PER_DAY"
    /\ ProbesIssued # {}
    /\ \E d \in call.start..call.end :
          /\ d < execution_date
          /\ store0[d].kind = "entry"
          /\ store0[d].confirmed = NoDate

\* The range of the call lies before execution_date and the remote holds
\* records on the day after its last day.
ConvergenceCase ==
    /\ call.end < execution_date
    /\ RemoteDay(call.end + 1, "asc") # <<>>

\* C39: after one per-day call without remote errors over a range before
\* execution_date, the remote holding records on the day after the range,
\* every day of the range is trustworthy, and the same call made again
\* issues no remote query.
C39_Convergence ==
    /\ (call.op = "stream_range" /\ ConvergenceCase)
          => \A d \in call.start..call.end : TrustedNow(d)
    /\ (call.op = "repeated" /\ ConvergenceCase) => request_log = <<>>

\* The part of C39 the code keeps: ranges none of whose days held records
\* stamped with their own date converge: the repeated call queries nothing
\* and writes nothing.
C39_ConvergenceUnlessOwnDate ==
    /\ (/\ call.op = "stream_range"
        /\ ConvergenceCase
        /\ \A d \in call.start..call.end : ~OwnDateStampAtStart(d))
          => \A d \in call.start..call.end : TrustedNow(d)
    /\ (/\ call.op = "repeated"
        /\ ConvergenceCase
        /\ \A d \in call.start..call.end : ~OwnDateStampAtStart(d))
          => /\ request_log = <<>>
             /\ write_log = <<>>
             /\ \A d \in call.start..call.end : TrustedNow(d)

\* A first call that probed and fetched, and its repetition without any
\* query.
C39_ConvergedAfterProbe ==
    /\ call.op = "repeated"
    /\ ConvergenceCase
    /\ call.start < call.end
    /\ request_log = <<>>
    /\ \E d \in call.start..call.end : result # <<>> /\ store[d].logs # <<>>

----------------------------------------------------------------------------
(* Termination of a hybrid call (specification SpecLockFair)               *)

\* Worker i waits at `with self._cache_write_lock` while another thread is
\* inside the block.
WaitsForWriteLock(i) ==
    /\ hybrid.phase = "running"
    /\ i \in 1..Len(hybrid.plan)
    /\ hybrid.w[i].pc \in WritePcs
    /\ ~CacheWriteLockFree

\* C40: every stream_range call terminates provided each remote query
\* returns or fails: once the gap workers of a hybrid call are started, the
\* call reaches the point where all of them are joined and the records are
\* returned; no worker waits for ever on the write lock or the scan memo.
C40_CallTerminates ==
    (hybrid.phase = "running") ~> (hybrid.phase = "done")

\* A worker waits for the write lock that another worker holds while it
\* walks the directory for the stamp.
C40_Witness ==
    \E i \in 1..MaxDay, j \in 1..MaxDay :
       /\ WaitsForWriteLock(i)
       /\ InWrite(j)
       /\ hybrid.w[j].pc \in StampedPcs

\* C40, the lock order: a thread inside the write lock never waits, so some
\* thread of a running call can always take its next step.
C40_SomeThreadRuns ==
    hybrid.phase = "running" =>
       ENABLED <<HybridThreads>>_vars \/ ENABLED <<HybridLeaves>>_hybrid

\* C40, the script: it takes no lock, so while a script call has not
\* returned its records, its probe thread, a pool thread or the caller
\* joining them can take a step.
C40_ScriptThreadRuns ==
    hybrid.phase = "script" => ENABLED <<NextScript>>_vars

====
